---- MODULE Spec2Model ----
(***************************************************************************)
(* A model of node-ipfs-sync: the fingerprint store (FileHash,             *)
(* FileHashProcessor), the remote-store client (IpfsClient), the pinning   *)
(* client (EstuaryClient) and the synchronisation engine (Watchdog).       *)
(*                                                                         *)
(* Strings are sequences of character codes, so that the prefix tests,     *)
(* the slices, the splits and the byte order of the key-value store are    *)
(* computed as the code computes them.  The platform is POSIX: the path    *)
(* separator is "/" (47).                                                  *)
(***************************************************************************)
EXTENDS Integers, Sequences, FiniteSets, TLC

VARIABLES
    cfg,      \* Configuration: db present, ignoreHidden, ignore, cwd
    dirs,     \* config.dirs: sequence of DirKey records (CID, MFSPath mutable)
    disk,     \* the local file system: path -> file record (files only)
    db,       \* the Level store: key -> value
    hashmap,  \* HashStore.hashmap: path -> FileHash
    keyList,  \* the remote store's key list (names)
    mfs,      \* the remote mutable namespace: linked path -> content id
    watcher,  \* the FSWatcher: watched roots and registered listeners
    main,     \* the task running Watchdog.start()
    tasks,    \* the running watch-event handlers
    faults,   \* number of remote failures injected so far
    hist,     \* history: what the run has done so far; the files it may see
              \* written and the number of file events it may see
    last      \* the last fingerprint-store operation and its result

vars == <<cfg, dirs, disk, db, hashmap, keyList, mfs, watcher, main, tasks,
          faults, hist, last>>

---------------------------------------------------------------------------
(* JavaScript values and string operations *)

\* `undefined`: distinct from every string (no string holds a negative code).
Undefined == <<-1>>

\* The empty string ''.
Empty == <<>>

\* String(undefined) inside a template literal.
ToStr(v) == IF v = Undefined
            THEN <<117, 110, 100, 101, 102, 105, 110, 101, 100>>  \* "undefined"
            ELSE v

Range(seq) == {seq[i] : i \in 1..Len(seq)}

Min(S) == CHOOSE x \in S : \A y \in S : x <= y

\* String.prototype.startsWith
StartsWith(s, p) == Len(p) <= Len(s) /\ SubSeq(s, 1, Len(p)) = p

\* Byte-wise order of keys in the Level store: a < b.
LexLess(a, b) ==
    LET n    == IF Len(a) < Len(b) THEN Len(a) ELSE Len(b)
        diff == {i \in 1..n : a[i] # b[i]}
    IN  IF diff = {} THEN Len(a) < Len(b) ELSE a[Min(diff)] < b[Min(diff)]

\* String.prototype.split on a one-character separator.
RECURSIVE Split(_, _)
Split(s, c) ==
    LET hits == {i \in 1..Len(s) : s[i] = c}
    IN  IF hits = {} THEN <<s>>
        ELSE <<SubSeq(s, 1, Min(hits) - 1)>>
             \o Split(SubSeq(s, Min(hits) + 1, Len(s)), c)

\* Array.prototype.join with a one-character separator.
RECURSIVE Join(_, _)
Join(parts, c) ==
    IF Len(parts) = 0 THEN Empty
    ELSE IF Len(parts) = 1 THEN ToStr(parts[1])
    ELSE ToStr(parts[1]) \o <<c>> \o Join(Tail(parts), c)

\* Array.prototype.slice(start, end) with JavaScript's index clamping.
JsIndex(n, i) == IF i < 0 THEN (IF n + i < 0 THEN 0 ELSE n + i)
                 ELSE (IF i > n THEN n ELSE i)
JsSlice(arr, start, end) ==
    SubSeq(arr, JsIndex(Len(arr), start) + 1, JsIndex(Len(arr), end))

\* arr[i] with a 0-based index: undefined outside the array.
JsAt(arr, i) == IF i >= 0 /\ i < Len(arr) THEN arr[i + 1] ELSE Undefined

\* String.prototype.slice(start), start >= 0.
StrSlice(s, start) == SubSeq(s, start + 1, Len(s))

---------------------------------------------------------------------------
(* FileHash: the two-tier fingerprint *)

\* xxh64(buffer).toString(16).  The hash is modelled as injective: the digest
\* of a buffer is the buffer behind an "x", so it is never the empty string.
Xxh64Hex(buf) == <<120>> \o buf

\* 0xff & (x >> k) for a number x given by its 8 bytes, low byte first.
\* JavaScript shifts the low 32 bits of x by k modulo 32.
ShiftByte(x, k) == x[((k % 32) \div 8) + 1]

\* FileHash.getFileFakeHash: the digest of size and modification time.
PreHash(x) == << ShiftByte(x, 0),  ShiftByte(x, 8),  ShiftByte(x, 16),
                 ShiftByte(x, 32), ShiftByte(x, 40), ShiftByte(x, 48),
                 ShiftByte(x, 56), ShiftByte(x, 64) >>
GetFileFakeHash(file) == Xxh64Hex(PreHash(file.size) \o PreHash(file.mtime))

\* FileHash.getFileHash: the digest of the file's bytes.
GetFileHash(file) == Xxh64Hex(file.content)

\* new FileHash(pathOnDisk, hash, fakeHash)
FileHash(p, h, f) == [pathOnDisk |-> p, hash |-> h, fakeHash |-> f]

\* Recalculate without the quick-digest short-circuit.
RecalculateAlways(this, dontHash, file) ==
    [fh |-> FileHash(this.pathOnDisk,
                     IF dontHash THEN this.hash ELSE GetFileHash(file),
                     GetFileFakeHash(file)),
     read |-> ~dontHash]

\* FileHash.recalculate(dontHash) on the file as it is on disk.
\* fh: the fingerprint returned; read: whether the content was read.
Recalculate(this, dontHash, file) ==
    LET recalcFakeHash == GetFileFakeHash(file)
    IN  IF recalcFakeHash = this.fakeHash
        THEN [fh |-> this, read |-> FALSE]
        ELSE [fh |-> FileHash(this.pathOnDisk,
                              IF dontHash THEN this.hash ELSE GetFileHash(file),
                              recalcFakeHash),
              read |-> ~dontHash]

---------------------------------------------------------------------------
(* The Level store and FileHashProcessor *)

\* "ts_"
TsPrefix == <<116, 115, 95>>
TsKey(p) == TsPrefix \o ToStr(p)

\* db.get: a missing key yields undefined.
DbGet(d, k) == IF k \in DOMAIN d THEN d[k] ELSE Undefined
DbPut(d, k, v) == [x \in (DOMAIN d) \cup {k} |-> IF x = k THEN v ELSE d[x]]
DbDel(d, k) == [x \in (DOMAIN d) \ {k} |-> d[x]]
DbDelAll(d, K) == [x \in (DOMAIN d) \ K |-> d[x]]

\* Update reporting a change when either digest differs.
UpdateEither(d, fileHash) ==
    LET hashChanged     == DbGet(d, fileHash.pathOnDisk) # fileHash.hash
        fakeHashChanged == DbGet(d, TsKey(fileHash.pathOnDisk)) # fileHash.fakeHash
        d1              == IF hashChanged
                           THEN DbPut(d, fileHash.pathOnDisk, fileHash.hash)
                           ELSE d
        d2              == IF fakeHashChanged
                           THEN DbPut(d1, TsKey(fileHash.pathOnDisk), fileHash.fakeHash)
                           ELSE d1
    IN  [db   |-> d2,
         ret  |-> hashChanged \/ fakeHashChanged,
         puts |-> (IF hashChanged THEN <<fileHash.pathOnDisk>> ELSE <<>>)
                  \o (IF fakeHashChanged THEN <<TsKey(fileHash.pathOnDisk)>> ELSE <<>>)]

\* FileHashProcessor.update (db present): the store after it, the value
\* returned and the keys written, in order.
Update(d, fileHash) ==
    LET dbHash          == DbGet(d, fileHash.pathOnDisk)
        hashChanged     == dbHash # fileHash.hash
        d1              == IF hashChanged
                           THEN DbPut(d, fileHash.pathOnDisk, fileHash.hash)
                           ELSE d
        dbFakeHash      == DbGet(d1, TsKey(fileHash.pathOnDisk))
        fakeHashChanged == dbFakeHash # fileHash.fakeHash
        d2              == IF fakeHashChanged
                           THEN DbPut(d1, TsKey(fileHash.pathOnDisk), fileHash.fakeHash)
                           ELSE d1
    IN  [db   |-> d2,
         ret  |-> hashChanged /\ fakeHashChanged,
         puts |-> (IF hashChanged THEN <<fileHash.pathOnDisk>> ELSE <<>>)
                  \o (IF fakeHashChanged THEN <<TsKey(fileHash.pathOnDisk)>> ELSE <<>>)]

\* The keys db.iterator({ gte: path }) yields: every key not below path.
IterKeys(d, path) == {k \in DOMAIN d : ~LexLess(k, path)}

\* FileHashProcessor.delete (db present): the store and the mirror after it.
Delete(d, hm, path) ==
    LET K == IterKeys(d, path)
    IN  [db      |-> DbDelAll(d, K \cup {TsKey(k) : k \in K}),
         hashmap |-> [p \in (DOMAIN hm) \ K |-> hm[p]],
         dels    |-> K]

---------------------------------------------------------------------------
(* The fingerprint store on its own: FileHash and FileHashProcessor applied *)
(* to files that change on disk, with a durable store configured.           *)

\* "/a/b/x", "/a/bc", "/z": a file under /a/b, a sibling of /a/b that shares
\* only a partial prefix with it, and a path that sorts after both.
StoreFileX == <<47, 97, 47, 98, 47, 120>>
StoreFileBc == <<47, 97, 47, 98, 99>>
StoreFileZ == <<47, 122>>
StorePaths == {StoreFileX, StoreFileBc, StoreFileZ}
\* "/a/b": the directory holding StoreFileX.
StoreDirB == <<47, 97, 47, 98>>

\* A number as its 8 bytes, low byte first (n < 65536).
Num(n) == <<n % 256, (n \div 256) % 256, 0, 0, 0, 0, 0, 0>>

\* What a file can be: bytes, size and modification time in milliseconds.
File(c, s, m) == [content |-> c, size |-> Num(s), mtime |-> Num(m)]
FileV1 == File(<<104, 105>>, 2, 1000)        \* "hi"
FileV2 == File(<<104, 111>>, 2, 2000)        \* "ho", written later
FileV1Touched == File(<<104, 105>>, 2, 2000) \* "hi", touched later
FileStates == {FileV1, FileV2, FileV1Touched}

\* stat(path): size and modification time.
Stat(file) == <<file.size, file.mtime>>

EmptyMap == [x \in {} |-> Empty]

NoLast == [op |-> "none"]

StoreInit ==
    /\ cfg = [hasDb |-> TRUE]
    /\ dirs = <<>>
    /\ disk = [p \in StorePaths |-> FileV1]
    /\ db = EmptyMap
    /\ hashmap = EmptyMap
    /\ keyList = {}
    /\ mfs = EmptyMap
    /\ watcher = [watched |-> {}, listeners |-> {}]
    /\ main = [pc |-> "off"]
    /\ tasks = <<>>
    /\ faults = 0
    /\ hist = [mirrorAt |-> EmptyMap, dbAt |-> EmptyMap]
    /\ last = NoLast

StoreFrame == UNCHANGED <<cfg, dirs, keyList, mfs, watcher, main, tasks, faults>>

\* The file StoreFileX is rewritten or touched on disk.
StoreModify ==
    /\ \E s \in FileStates :
          /\ s # disk[StoreFileX]
          /\ disk' = [disk EXCEPT ![StoreFileX] = s]
    /\ last' = [op |-> "modify"]
    /\ UNCHANGED <<db, hashmap, hist>>
    /\ StoreFrame

\* m with m[k] = v.
MapPut(m, k, v) == [x \in (DOMAIN m) \cup {k} |-> IF x = k THEN v ELSE m[x]]
MapGet(m, k, dflt) == IF k \in DOMAIN m THEN m[k] ELSE dflt
MapDelAll(m, K) == [x \in (DOMAIN m) \ K |-> m[x]]

\* History: the size and time the quick digest held for p (by the mirror, or
\* by the store at ts_p) was computed from; NoStat when there is none.
NoStat == <<>>
RecalcAt(this, at, r, file) == IF r.fh = this THEN at ELSE Stat(file)
HistUpdate(h, p, mirrorAt, updAt, updRes) ==
    [h EXCEPT !.mirrorAt = MapPut(@, p, mirrorAt),
              !.dbAt = IF TsKey(p) \in Range(updRes.puts) THEN MapPut(@, p, updAt) ELSE @]
HistDelete(h, r) ==
    [h EXCEPT !.mirrorAt = [p \in (DOMAIN @) \cap DOMAIN r.hashmap |-> @[p]],
              !.dbAt = [p \in {q \in DOMAIN @ : TsKey(q) \in DOMAIN r.db} |-> @[p]]]

\* What `last` keeps of a recalculate and of an update.
RecOf(this, at, dontHash, file, r) ==
    [arg |-> this, at |-> at, stat |-> Stat(file), dontHash |-> dontHash,
     ret |-> r.fh, read |-> r.read]
UpdOf(fh, u) == [arg |-> fh, ret |-> u.ret, puts |-> u.puts]

\* The fingerprint getDirFilesHash builds for a file from the store.
LoadFileHash(d, file, dontHash) ==
    FileHash(file, IF dontHash THEN Empty ELSE DbGet(d, file), DbGet(d, TsKey(file)))

\* Startup, one file: the fingerprint is loaded from the store and
\* recalculated, update is applied to it, and it is put in the mirror.
StoreScan ==
    /\ \E p \in StorePaths, dontHash \in BOOLEAN :
          /\ (dontHash => p = StoreFileX)
          /\ LET this == LoadFileHash(db, p, dontHash)
                 at   == MapGet(hist.dbAt, p, NoStat)
                 r    == Recalculate(this, dontHash, disk[p])
                 rAt  == RecalcAt(this, at, r, disk[p])
                 u    == Update(db, r.fh)
             IN  /\ db' = u.db
                 /\ hashmap' = MapPut(hashmap, p, r.fh)
                 /\ hist' = HistUpdate(hist, p, rAt, rAt, u)
                 /\ last' = [op |-> "scan",
                             rec |-> RecOf(this, at, dontHash, disk[p], r),
                             upd |-> UpdOf(r.fh, u)]
    /\ UNCHANGED disk
    /\ StoreFrame

\* A watch add/change event, after the publish: the mirror's fingerprint (or
\* an empty one) is recalculated into the mirror and update is applied.
StoreWatch ==
    /\ \E p \in StorePaths, dontHash \in BOOLEAN :
          /\ (dontHash => p = StoreFileX)
          /\ LET fileHash == MapGet(hashmap, p, FileHash(p, Empty, Empty))
                 at       == MapGet(hist.mirrorAt, p, NoStat)
                 r        == Recalculate(fileHash, dontHash, disk[p])
                 rAt      == RecalcAt(fileHash, at, r, disk[p])
                 u        == Update(db, fileHash)
             IN  /\ db' = u.db
                 /\ hashmap' = MapPut(hashmap, p, r.fh)
                 /\ hist' = HistUpdate(hist, p, rAt, at, u)
                 /\ last' = [op |-> "watch",
                             rec |-> RecOf(fileHash, at, dontHash, disk[p], r),
                             upd |-> UpdOf(fileHash, u)]
    /\ UNCHANGED disk
    /\ StoreFrame

\* hashProcessor.delete(path)
StoreDelete ==
    /\ \E p \in StorePaths \cup {StoreDirB} :
          LET r == Delete(db, hashmap, p)
          IN  /\ db' = r.db
              /\ hashmap' = r.hashmap
              /\ hist' = HistDelete(hist, r)
              /\ last' = [op |-> "delete", arg |-> p, dels |-> r.dels]
    /\ UNCHANGED disk
    /\ StoreFrame

StoreNext == StoreModify \/ StoreScan \/ StoreWatch \/ StoreDelete

SpecStore == StoreInit /\ [][StoreNext]_vars

---------------------------------------------------------------------------
(* The engine's world: configuration, disk, remote store *)

\* KEY_SPACE = 'ipfs-sync.'
KEY_SPACE == <<105, 112, 102, 115, 45, 115, 121, 110, 99, 46>>

\* path.sep on POSIX.
PathSeparator == 47

\* config.basePath as configured: "/".
BasePath == <<47>>

\* path.basename of a file path.
Basename(path) == LET parts == Split(path, PathSeparator) IN parts[Len(parts)]

\* path.extname: from the last "." of the basename, unless that is its first
\* character or there is none.
Extname(path) ==
    LET base == Basename(path)
        dots == {i \in 1..Len(base) : base[i] = 46}
    IN  IF dots = {} THEN Empty
        ELSE LET i == CHOOSE x \in dots : \A y \in dots : y <= x
             IN  IF i = 1 THEN Empty ELSE SubSeq(base, i, Len(base))

\* Watchdog.shouldIgnorePath
ShouldIgnorePath(path) ==
    \/ cfg.ignoreHidden /\ StartsWith(Basename(path), <<46>>)
    \/ Extname(path) \in cfg.ignore

\* path.resolve against the working directory (which ends with "/").
Resolve(p) == IF StartsWith(p, <<47>>) THEN p ELSE cfg.cwd \o p

\* The directory prefix of a path given with or without its final "/".
AsDir(p) == IF Len(p) > 0 /\ p[Len(p)] = PathSeparator THEN p ELSE p \o <<PathSeparator>>

\* The paths of the directories between root (not included) and file.
RECURSIVE Ancestors(_, _)
Ancestors(root, file) ==
    LET rest == StrSlice(file, Len(root))
        hits == {i \in 1..Len(rest) : rest[i] = PathSeparator}
    IN  IF hits = {} THEN {}
        ELSE LET d == root \o SubSeq(rest, 1, Min(hits) - 1)
             IN  {d} \cup Ancestors(d \o <<PathSeparator>>, file)

\* A set of strings as the sequence in byte order.
RECURSIVE SortedSeq(_)
SortedSeq(S) ==
    IF S = {} THEN <<>>
    ELSE LET m == CHOOSE x \in S : \A y \in S : x = y \/ LexLess(x, y)
         IN  <<m>> \o SortedSeq(S \ {m})

\* walkdir(dir, shouldIgnorePath): the files under dir, none of them and no
\* directory above them ignored, as absolute paths; an error when dir cannot
\* be listed.  Entries are taken in byte order.
Walk(dir) ==
    LET root  == AsDir(Resolve(dir))
        under == {f \in DOMAIN disk : StartsWith(f, root)}
        kept  == {f \in under : ~ShouldIgnorePath(f)
                                /\ \A d \in Ancestors(root, f) : ~ShouldIgnorePath(d)}
    IN  IF under = {} THEN [ok |-> FALSE, value |-> <<>>]
        ELSE [ok |-> TRUE, value |-> SortedSeq(kept)]

\* The content identifier the remote store gives to a file's bytes.
Cid(content) == <<81>> \o content

\* The identifier files/stat reports for a path of the mutable namespace:
\* it is determined by the entries linked under the path; '' when there is
\* nothing at the path.
RECURSIVE TreeText(_, _)
TreeText(m, keys) ==
    IF Len(keys) = 0 THEN Empty
    ELSE keys[1] \o <<58>> \o m[keys[1]] \o <<59>> \o TreeText(m, Tail(keys))
TreeCid(m, path) ==
    LET under == {k \in DOMAIN m : k = path \/ StartsWith(k, AsDir(path))}
    IN  IF under = {} THEN Empty ELSE <<84>> \o TreeText(m, SortedSeq(under))

\* files/rm with force: the entry and everything under it.
MfsRemove(m, path) ==
    [k \in {x \in DOMAIN m : ~(x = path \/ StartsWith(x, AsDir(path)))} |-> m[k]]

\* One request to the remote store or the pinning service, as logged.
Call(op, a, b, res) == [op |-> op, a |-> a, b |-> b, res |-> res]

\* The error classes a request can end with: a message that starts with
\* 'failed to get block', any other error.
BadBlock == "failed to get block"
NoSuchFile == "no such file or directory"
OtherError == "error"

\* handleBadBlockError's test of the error message.
IsBadBlockError(res) == res \in {BadBlock, NoSuchFile}

\* new DirKey from the configuration: CID and MFSPath are not yet set.
DirKey(id, dir, nocopy, dontHash, pin, estuary) ==
    [ID |-> id, Dir |-> dir, Nocopy |-> nocopy, DontHash |-> dontHash,
     Pin |-> pin, Estuary |-> estuary, CID |-> Undefined, MFSPath |-> Undefined]

---------------------------------------------------------------------------
(* Tasks: Watchdog.start() is task 0, the watch-event handlers are 1, 2, .. *)

\* At most MaxFaults requests fail in a run; at most MaxEvents changes are
\* made to the files while the program runs.
MaxFaults == 2
MaxEvents == 1

\* The results a request can end with.
Outcomes(errors) == {"ok"} \cup (IF faults < MaxFaults THEN errors ELSE {})
Fault(res) == faults' = IF res = "ok" THEN faults ELSE faults + 1

TaskIds == 0..Len(tasks)
TaskOf(t) == IF t = 0 THEN main ELSE tasks[t]

\* Task t goes on with Watchdog.addFile frame af, having logged calls.
SetAf(t, af, calls) ==
    IF t = 0
    THEN /\ main' = [main EXCEPT !.af = af, !.calls = calls]
         /\ UNCHANGED tasks
    ELSE /\ tasks' = [tasks EXCEPT ![t].af = af, ![t].calls = calls]
         /\ UNCHANGED main

NoAf == [pc |-> "idle"]

\* "/ipfs/"
IpfsPrefix == <<47, 105, 112, 102, 115, 47>>

\* Watchdog.addFile up to its first await: the invocation is logged, and
\* IpfsClient.addFile reads the file (readFileSync throws when it is gone).
\* was is history: the identifier linked at the target when the outermost
\* invocation began.
AfEnter(pathOnDisk, mfsPath, noCopy, makeDir, overwrite, depth, res, hash0) ==
    LET there == Resolve(pathOnDisk) \in DOMAIN disk
    IN  [pc |-> IF there THEN "add" ELSE "threw",
         pathOnDisk |-> pathOnDisk, mfsPath |-> mfsPath, noCopy |-> noCopy,
         makeDir |-> makeDir, overwrite |-> overwrite, depth |-> depth,
         content |-> IF there THEN disk[Resolve(pathOnDisk)].content ELSE Empty,
         hash |-> Empty, hash0 |-> hash0, res |-> res, hbCid |-> Empty,
         was |-> MapGet(mfs, BasePath \o mfsPath, Undefined)]
AfInvocation(af) ==
    [op |-> "addFile", a |-> af.pathOnDisk, b |-> af.mfsPath, res |-> "",
     makeDir |-> af.makeDir, overwrite |-> af.overwrite, depth |-> af.depth]

\* Watchdog.addFile returns: err(...) from the outermost invocation, and
\* ok(ipfsHash) of the outermost invocation from everywhere else.
AfReturn(af, failed) ==
    [af EXCEPT !.pc = "ret", !.res = IF failed /\ af.depth = 0 THEN "err" ELSE @]

\* The recursive call of Watchdog.addFile after a handled bad block.
AfRetry(af) ==
    [AfEnter(af.pathOnDisk, af.mfsPath, af.noCopy, af.makeDir, af.overwrite,
             af.depth + 1, af.res, af.hash0) EXCEPT !.was = af.was]

\* The response to add, the identifier made from the name of the file.
AfAddByName(t) ==
    /\ TaskOf(t).af.pc = "add"
    /\ \E res \in Outcomes({OtherError}) :
          LET af == TaskOf(t).af
              hash == Cid(af.pathOnDisk)
              next == IF res # "ok" THEN AfReturn(af, TRUE)
                      ELSE [af EXCEPT !.hash = hash,
                               !.hash0 = IF af.depth = 0 THEN hash ELSE @,
                               !.pc = IF af.makeDir THEN "mkdir"
                                      ELSE IF af.overwrite THEN "rm" ELSE "cp"]
          IN  /\ SetAf(t, next, Append(TaskOf(t).calls,
                                       Call("add", af.pathOnDisk, FALSE, res)))
              /\ Fault(res)
    /\ UNCHANGED <<cfg, dirs, disk, db, hashmap, keyList, mfs, watcher, hist, last>>

\* The response to add (nocopy, only-hash=false).
AfAdd(t) ==
    /\ TaskOf(t).af.pc = "add"
    /\ \E res \in Outcomes({OtherError}) :
          LET af == TaskOf(t).af
              hash == Cid(af.content)
              next == IF res # "ok" THEN AfReturn(af, TRUE)
                      ELSE [af EXCEPT !.hash = hash,
                               !.hash0 = IF af.depth = 0 THEN hash ELSE @,
                               !.pc = IF af.makeDir THEN "mkdir"
                                      ELSE IF af.overwrite THEN "rm" ELSE "cp"]
          IN  /\ SetAf(t, next, Append(TaskOf(t).calls,
                                       Call("add", af.pathOnDisk, FALSE, res)))
              /\ Fault(res)
    /\ UNCHANGED <<cfg, dirs, disk, db, hashmap, keyList, mfs, watcher, hist, last>>

\* The response to files/mkdir for the parent of the target.
AfMkdir(t) ==
    /\ TaskOf(t).af.pc = "mkdir"
    /\ \E res \in Outcomes({OtherError}) :
          LET af == TaskOf(t).af
              mfsParent == Join(JsSlice(Split(af.mfsPath, 47), 0, -1), 47)
              next == IF res # "ok" THEN AfReturn(af, TRUE)
                      ELSE [af EXCEPT !.pc = IF af.overwrite THEN "rm" ELSE "cp"]
          IN  /\ SetAf(t, next, Append(TaskOf(t).calls,
                                       Call("mkdir", BasePath \o mfsParent, TRUE, res)))
              /\ Fault(res)
    /\ UNCHANGED <<cfg, dirs, disk, db, hashmap, keyList, mfs, watcher, hist, last>>

\* The response to files/rm of the target (overwrite): its result is ignored.
AfRm(t) ==
    /\ TaskOf(t).af.pc = "rm"
    /\ \E res \in Outcomes({OtherError}) :
          LET af == TaskOf(t).af
              target == BasePath \o af.mfsPath
          IN  /\ SetAf(t, [af EXCEPT !.pc = "cp"],
                       Append(TaskOf(t).calls, Call("rm", target, TRUE, res)))
              /\ mfs' = IF res = "ok" THEN MfsRemove(mfs, target) ELSE mfs
              /\ Fault(res)
    /\ UNCHANGED <<cfg, dirs, disk, db, hashmap, keyList, watcher, hist, last>>

\* The response to files/cp of /ipfs/<hash> to the target.  On an error
\* handleBadBlockError runs: for a bad block it reads the file again for a
\* hash-only add; for any other error addFile returns ok.
AfCp(t) ==
    /\ TaskOf(t).af.pc = "cp"
    /\ \E res \in Outcomes({BadBlock, NoSuchFile, OtherError}) :
          LET af == TaskOf(t).af
              target == BasePath \o af.mfsPath
              there == Resolve(af.pathOnDisk) \in DOMAIN disk
              next == IF res = "ok" \/ ~IsBadBlockError(res) THEN AfReturn(af, FALSE)
                      ELSE IF ~there THEN [af EXCEPT !.pc = "threw"]
                      ELSE [af EXCEPT !.pc = "hbAdd",
                               !.hbCid = Cid(disk[Resolve(af.pathOnDisk)].content)]
          IN  /\ SetAf(t, next, Append(TaskOf(t).calls,
                                       Call("cp", IpfsPrefix \o af.hash, target, res)))
              /\ mfs' = IF res = "ok" THEN MapPut(mfs, target, af.hash) ELSE mfs
              /\ Fault(res)
    /\ UNCHANGED <<cfg, dirs, disk, db, hashmap, keyList, watcher, hist, last>>

\* handleBadBlockError: the response to add with only-hash.  removeCID
\* follows when it succeeded; handleBadBlockError returns true either way
\* and Watchdog.addFile calls itself again.
AfHbAdd(t) ==
    /\ TaskOf(t).af.pc = "hbAdd"
    /\ \E res \in Outcomes({OtherError}) :
          LET af == TaskOf(t).af
              calls == Append(TaskOf(t).calls, Call("add", af.pathOnDisk, TRUE, res))
          IN  /\ IF res = "ok"
                 THEN SetAf(t, [af EXCEPT !.pc = "hbRemove"], calls)
                 ELSE SetAf(t, AfRetry(af), Append(calls, AfInvocation(AfRetry(af))))
              /\ Fault(res)
    /\ UNCHANGED <<cfg, dirs, disk, db, hashmap, keyList, mfs, watcher, hist, last>>

\* handleBadBlockError: removeCID(cid) has run (its own failures are only
\* logged); Watchdog.addFile calls itself again.
AfHbRemove(t) ==
    /\ TaskOf(t).af.pc = "hbRemove"
    /\ LET af == TaskOf(t).af
           calls == Append(TaskOf(t).calls, Call("removeCID", af.hbCid, TRUE, "ok"))
       IN  SetAf(t, AfRetry(af), Append(calls, AfInvocation(AfRetry(af))))
    /\ UNCHANGED <<cfg, dirs, disk, db, hashmap, keyList, mfs, watcher, faults, hist, last>>

---------------------------------------------------------------------------
(* The engine: initial states *)

\* The monitored directory "D" holds the files a and s/b.  It is
\* configured by its absolute path "/d/" or, from the working directory
\* "/", by the relative path "d/"; with the working directory "/w/" the
\* absolute path "/d/" is not below the working directory.
DirId == <<68>>
DirAbs == <<47, 100, 47>>
DirRel == <<100, 47>>
CwdRoot == <<47>>
CwdOther == <<47, 119, 47>>
FileA == <<47, 100, 47, 97>>               \* /d/a
FileB == <<47, 100, 47, 115, 47, 98>>      \* /d/s/b
FileHidden == <<47, 100, 47, 46, 104>>     \* /d/.h
FileC == <<47, 101, 47, 99>>               \* /e/c, of a second directory "E"
SubDir == <<47, 100, 47, 115>>             \* /d/s
RootDir == <<47, 100>>                     \* /d

\* config.ignore as configured by default: 'kate-swp', 'swp', 'part',
\* 'crdownload'.
DefaultIgnore ==
    { <<107, 97, 116, 101, 45, 115, 119, 112>>, <<115, 119, 112>>,
      <<112, 97, 114, 116>>, <<99, 114, 100, 111, 119, 110, 108, 111, 97, 100>> }

\* The key of the remote store itself, and the key of directory "D".
SelfKey == [id |-> <<75, 48>>, name |-> <<115, 101, 108, 102>>]
DirRemoteKey(id) == [id |-> <<75>> \o id, name |-> KEY_SPACE \o id]

\* What a run of the program leaves in the store for a file in state file.
StoredFor(path, file, dontHash) ==
    LET fh == Recalculate(FileHash(path, IF dontHash THEN Empty ELSE Undefined,
                                   Undefined), dontHash, file).fh
    IN  [k \in {path, TsKey(path)} |-> IF k = path THEN fh.hash ELSE fh.fakeHash]
Merge(f, g) == [k \in (DOMAIN f) \cup (DOMAIN g) |-> IF k \in DOMAIN f THEN f[k] ELSE g[k]]

\* The settings of (db, DontHash, Pin, Estuary, Estuary API key) explored.
FlagSets ==
    { [hasDb |-> TRUE,  dontHash |-> FALSE, pin |-> TRUE,  estuary |-> TRUE,  apiKey |-> TRUE],
      [hasDb |-> TRUE,  dontHash |-> TRUE,  pin |-> FALSE, estuary |-> FALSE, apiKey |-> FALSE],
      [hasDb |-> FALSE, dontHash |-> FALSE, pin |-> TRUE,  estuary |-> TRUE,  apiKey |-> FALSE] }

MainInit ==
    [pc |-> "listKeys", i |-> 1, keys |-> {}, files |-> <<>>, localDirs |-> {},
     af |-> NoAf, calls |-> <<>>, of |-> 1, cid |-> Empty, fcid |-> Empty]

\* The quick digest the store holds for a file no longer matches the file.
Stale(d, dk, f) ==
    /\ f \in DOMAIN dk
    /\ DbGet(d, TsKey(f)) # Undefined
    /\ DbGet(d, TsKey(f)) # GetFileFakeHash(dk[f])

\* The directories configured: "D", and with it "E" at "/e/" when two are.
DirsOf(fl, dir, two) ==
    << DirKey(DirId, dir, TRUE, fl.dontHash, fl.pin, fl.estuary) >>
    \o (IF two THEN << DirKey(<<69>>, <<47, 101, 47>>, TRUE, fl.dontHash, fl.pin, fl.estuary) >>
        ELSE <<>>)
FilesOf(two) == {FileA, FileB} \cup (IF two THEN {FileC} ELSE {})

\* Either the first run (no key, nothing stored, nothing linked), or a run
\* after an earlier one that saw every file in state V1; file a may have
\* been rewritten or touched since.  Two directories are configured in one
\* setting only.  The earlier run had a store when this one has, except in
\* the settings where stored is FALSE: then it uploaded without one.
Init ==
    \E fl \in FlagSets, place \in {<<DirAbs, CwdRoot>>, <<DirRel, CwdRoot>>, <<DirAbs, CwdOther>>},
       restart \in BOOLEAN, fa \in FileStates, two \in BOOLEAN, stored \in BOOLEAN :
       /\ (~restart => fa = FileV1)
       /\ (~stored) => (restart /\ fl.hasDb /\ place = <<DirAbs, CwdRoot>> /\ fa = FileV1 /\ ~two)
       /\ two => (fl.hasDb /\ fl.dontHash /\ place = <<DirAbs, CwdRoot>> /\ fa = FileV1)
       /\ cfg = [hasDb |-> fl.hasDb, ignoreHidden |-> TRUE, ignore |-> DefaultIgnore,
                 cwd |-> place[2], estuaryApiKey |-> fl.apiKey]
       /\ dirs = DirsOf(fl, place[1], two)
       /\ disk = [p \in FilesOf(two) |-> IF p = FileA THEN fa ELSE FileV1]
       /\ db = IF restart /\ fl.hasDb /\ stored
               THEN Merge(StoredFor(FileA, FileV1, fl.dontHash),
                          Merge(StoredFor(FileB, FileV1, fl.dontHash),
                                IF two THEN StoredFor(FileC, FileV1, fl.dontHash)
                                ELSE EmptyMap))
               ELSE EmptyMap
       /\ hashmap = EmptyMap
       /\ keyList = IF restart
                    THEN {SelfKey} \cup {DirRemoteKey(dirs[i].ID) : i \in 1..Len(dirs)}
                    ELSE {SelfKey}
       /\ mfs = IF restart THEN [k \in FilesOf(two) |-> Cid(FileV1.content)] ELSE EmptyMap
       /\ watcher = [watched |-> {}, listeners |-> {},
                     localDirs |-> [i \in 1..Len(dirs) |-> {}]]
       /\ main = MainInit
       /\ tasks = <<>>
       /\ faults = 0
       /\ hist = [stale |-> {f \in DOMAIN disk : Stale(db, disk, f)},
                  recon |-> {}, checked |-> {}, generated |-> {},
                  generatedOk |-> {}, uploaded |-> {}, events |-> 0,
                  tick |-> [state |-> "none"],
                  prior |-> IF ~restart THEN "none"
                            ELSE IF fl.hasDb /\ stored THEN "stored" ELSE "unstored",
                  writable |-> {FileA, FileHidden}, cap |-> MaxEvents]
       /\ last = NoLast

\* Two directories of which the second, "S" at "/d/s/", lies inside the
\* first, "D" at "/d/": a first run, or a run after an earlier one that
\* stored and linked every file.
DirNested == <<47, 100, 47, 115, 47>>
InitNested ==
    \E fl \in {f \in FlagSets : f.hasDb /\ ~f.dontHash}, restart \in BOOLEAN :
       /\ cfg = [hasDb |-> fl.hasDb, ignoreHidden |-> TRUE, ignore |-> DefaultIgnore,
                 cwd |-> CwdRoot, estuaryApiKey |-> fl.apiKey]
       /\ dirs = << DirKey(DirId, DirAbs, TRUE, fl.dontHash, fl.pin, fl.estuary),
                    DirKey(<<83>>, DirNested, TRUE, fl.dontHash, fl.pin, fl.estuary) >>
       /\ disk = [p \in {FileA, FileB} |-> FileV1]
       /\ db = IF restart
               THEN Merge(StoredFor(FileA, FileV1, fl.dontHash),
                          StoredFor(FileB, FileV1, fl.dontHash))
               ELSE EmptyMap
       /\ hashmap = EmptyMap
       /\ keyList = IF restart
                    THEN {SelfKey} \cup {DirRemoteKey(dirs[i].ID) : i \in 1..Len(dirs)}
                    ELSE {SelfKey}
       /\ mfs = IF restart THEN [k \in {FileA, FileB} |-> Cid(FileV1.content)] ELSE EmptyMap
       /\ watcher = [watched |-> {}, listeners |-> {},
                     localDirs |-> [i \in 1..Len(dirs) |-> {}]]
       /\ main = MainInit
       /\ tasks = <<>>
       /\ faults = 0
       /\ hist = [stale |-> {}, recon |-> {}, checked |-> {}, generated |-> {},
                  generatedOk |-> {}, uploaded |-> {}, events |-> 0,
                  tick |-> [state |-> "none"],
                  prior |-> IF restart THEN "stored" ELSE "none",
                  writable |-> {FileB}, cap |-> MaxEvents]
       /\ last = NoLast

\* One directory "D" at "/d/" holding two files side by side, a and c: a
\* first run, or a run after an earlier one that stored and linked both.
\* While it runs a, .h or x inside the hidden directory .g may be written.
FileSibling == <<47, 100, 47, 99>>          \* /d/c
FileInHidden == <<47, 100, 47, 46, 103, 47, 120>>     \* /d/.g/x
InitSiblings ==
    \E fl \in {f \in FlagSets : f.hasDb /\ ~f.dontHash}, restart \in BOOLEAN :
       /\ cfg = [hasDb |-> fl.hasDb, ignoreHidden |-> TRUE, ignore |-> DefaultIgnore,
                 cwd |-> CwdRoot, estuaryApiKey |-> fl.apiKey]
       /\ dirs = << DirKey(DirId, DirAbs, TRUE, fl.dontHash, fl.pin, fl.estuary) >>
       /\ disk = [p \in {FileA, FileSibling} |-> FileV1]
       /\ db = IF restart
               THEN Merge(StoredFor(FileA, FileV1, fl.dontHash),
                          StoredFor(FileSibling, FileV1, fl.dontHash))
               ELSE EmptyMap
       /\ hashmap = EmptyMap
       /\ keyList = IF restart THEN {SelfKey, DirRemoteKey(DirId)} ELSE {SelfKey}
       /\ mfs = IF restart THEN [k \in {FileA, FileSibling} |-> Cid(FileV1.content)]
                ELSE EmptyMap
       /\ watcher = [watched |-> {}, listeners |-> {},
                     localDirs |-> [i \in 1..Len(dirs) |-> {}]]
       /\ main = MainInit
       /\ tasks = <<>>
       /\ faults = 0
       /\ hist = [stale |-> {}, recon |-> {}, checked |-> {}, generated |-> {},
                  generatedOk |-> {}, uploaded |-> {}, events |-> 0,
                  tick |-> [state |-> "none"],
                  prior |-> IF restart THEN "stored" ELSE "none",
                  writable |-> {FileA, FileHidden, FileInHidden}, cap |-> MaxEvents]
       /\ last = NoLast

\* One directory "D" holding the file a alone, in a run after an earlier one
\* that stored and linked it, or in a first run; the file may be removed and
\* written again while the program runs, so that two listeners for the one
\* path are under way at a time.
MaxRaceEvents == MaxEvents + 1
InitRace ==
    \E fl \in {f \in FlagSets : f.hasDb /\ ~f.dontHash}, restart \in BOOLEAN :
       /\ cfg = [hasDb |-> fl.hasDb, ignoreHidden |-> TRUE, ignore |-> DefaultIgnore,
                 cwd |-> CwdRoot, estuaryApiKey |-> fl.apiKey]
       /\ dirs = << DirKey(DirId, DirRel, TRUE, fl.dontHash, fl.pin, fl.estuary) >>
       /\ disk = [p \in {FileA} |-> FileV1]
       /\ db = IF restart THEN StoredFor(FileA, FileV1, fl.dontHash) ELSE EmptyMap
       /\ hashmap = EmptyMap
       /\ keyList = IF restart THEN {SelfKey, DirRemoteKey(DirId)} ELSE {SelfKey}
       /\ mfs = IF restart THEN [k \in {FileA} |-> Cid(FileV1.content)] ELSE EmptyMap
       /\ watcher = [watched |-> {}, listeners |-> {},
                     localDirs |-> [i \in 1..Len(dirs) |-> {}]]
       /\ main = MainInit
       /\ tasks = <<>>
       /\ faults = 0
       /\ hist = [stale |-> {}, recon |-> {}, checked |-> {}, generated |-> {},
                  generatedOk |-> {}, uploaded |-> {}, events |-> 0,
                  tick |-> [state |-> "none"],
                  prior |-> IF restart THEN "stored" ELSE "none",
                  writable |-> {FileA}, cap |-> MaxRaceEvents]
       /\ last = NoLast

---------------------------------------------------------------------------
(* Watchdog.start: startup *)

Dir(i) == dirs[i]
MainLog(call) == Append(main.calls, call)

\* hashProcessor.update reporting a change for every fingerprint.
HashUpdateAlways(fileHash) ==
    IF cfg.hasDb THEN [Update(db, fileHash) EXCEPT !.ret = TRUE]
    ELSE [db |-> db, ret |-> FALSE, puts |-> {}]

\* hashProcessor.update / delete: nothing happens without a store.
HashUpdate(fileHash) ==
    IF cfg.hasDb THEN Update(db, fileHash) ELSE [db |-> db, ret |-> FALSE, puts |-> {}]
HashDelete(path) ==
    IF cfg.hasDb THEN Delete(db, hashmap, path)
    ELSE [db |-> db, hashmap |-> hashmap, dels |-> {}]

\* The parent directory of a path, as the callers of addFile compute it.
ParentDir(path) == Join(JsSlice(Split(path, PathSeparator), 0, -1), PathSeparator)

\* The test of the key scan in start().
KeyMatchBare(key, dir) == key.name = dir.ID
KeyMatch(key, dir) == key.name = KEY_SPACE \o dir.ID

\* watchDir(dir): the root is added to the watcher and the four listeners
\* are registered.
WatchDir(i) ==
    watcher' = [watcher EXCEPT !.watched = @ \cup {Dir(i).Dir},
                               !.listeners = @ \cup {i}]

\* start() going to the main loop after any directory.
NextDirToLoop(m) == [m EXCEPT !.pc = "sleep"]

\* start() goes on to the next directory, or to the main loop.
NextDir(m) ==
    IF m.i < Len(dirs)
    THEN [m EXCEPT !.pc = "dir", !.i = @ + 1]
    ELSE [m EXCEPT !.pc = "sleep"]

\* The response to key/list.
ListKeys ==
    /\ main.pc = "listKeys"
    /\ \E res \in Outcomes({OtherError}) :
          /\ main' = [main EXCEPT !.pc = IF res = "ok" THEN "dir" ELSE "failed",
                                  !.keys = IF res = "ok" THEN keyList ELSE {},
                                  !.calls = MainLog(Call("key/list", Empty, Empty, res))]
          /\ Fault(res)
    /\ UNCHANGED <<cfg, dirs, disk, db, hashmap, keyList, mfs, watcher, tasks, hist, last>>

\* The head of the loop body with the watch attached at once.
DirBeginWatching ==
    /\ main.pc = "dir"
    /\ LET i       == main.i
           path    == Split(Dir(i).Dir, PathSeparator)
           mfsPath == JsAt(path, Len(path) - 2)
           walk    == Walk(Dir(i).Dir)
           hashes  == [k \in 1..Len(walk.value) |->
                          Recalculate(LoadFileHash(db, walk.value[k], Dir(i).DontHash),
                                      Dir(i).DontHash, disk[walk.value[k]]).fh]
           m       == [main EXCEPT !.of = i, !.calls = IF i = main.of THEN @ ELSE <<>>]
       IN  /\ dirs' = [dirs EXCEPT ![i].MFSPath = mfsPath]
           /\ main' = IF ~cfg.hasDb THEN [m EXCEPT !.pc = "keys"]
                      ELSE IF ~walk.ok THEN [m EXCEPT !.pc = "failed"]
                      ELSE [m EXCEPT !.pc = "recon", !.files = hashes,
                                     !.localDirs = {}]
    /\ WatchDir(main.i)
    /\ UNCHANGED <<cfg, disk, db, hashmap, keyList, mfs, tasks, faults, hist, last>>

\* The head of the loop body for a directory: MFSPath is set and, with a
\* store, getDirFilesHash walks the directory and recalculates the
\* fingerprint of every file from what the store holds.
DirBegin ==
    /\ main.pc = "dir"
    /\ LET i       == main.i
           path    == Split(Dir(i).Dir, PathSeparator)
           mfsPath == JsAt(path, Len(path) - 2)
           walk    == Walk(Dir(i).Dir)
           hashes  == [k \in 1..Len(walk.value) |->
                          Recalculate(LoadFileHash(db, walk.value[k], Dir(i).DontHash),
                                      Dir(i).DontHash, disk[walk.value[k]]).fh]
           m       == [main EXCEPT !.of = i, !.calls = IF i = main.of THEN @ ELSE <<>>]
       IN  /\ dirs' = [dirs EXCEPT ![i].MFSPath = mfsPath]
           /\ main' = IF ~cfg.hasDb THEN [m EXCEPT !.pc = "keys"]
                      ELSE IF ~walk.ok THEN [m EXCEPT !.pc = "failed"]
                      ELSE [m EXCEPT !.pc = "recon", !.files = hashes,
                                     !.localDirs = {}]
    /\ UNCHANGED <<cfg, disk, db, hashmap, keyList, mfs, watcher, tasks, faults, hist, last>>

\* Reconciliation, one file: update is applied to the fingerprint; when it
\* reports a change, publish-file is invoked for the file.
ReconFile ==
    /\ main.pc = "recon"
    /\ main.files # <<>>
    /\ LET i         == main.i
           hash      == Head(main.files)
           u         == HashUpdate(hash)
           parentDir == ParentDir(hash.pathOnDisk)
           makeDir   == parentDir \notin main.localDirs
           mfsPath   == StrSlice(hash.pathOnDisk, Len(Dir(i).Dir))
           af        == AfEnter(hash.pathOnDisk,
                                ToStr(Dir(i).MFSPath) \o <<47>> \o mfsPath,
                                Dir(i).Nocopy, makeDir, FALSE, 0, "ok", Empty)
       IN  /\ db' = u.db
           /\ IF u.ret
              THEN /\ main' = [main EXCEPT !.pc = "reconAdd", !.af = af,
                                  !.localDirs = @ \cup {parentDir},
                                  !.calls = MainLog(AfInvocation(af))]
                   /\ hist' = [hist EXCEPT !.recon = @ \cup {hash.pathOnDisk}]
                   /\ UNCHANGED hashmap
              ELSE /\ main' = [main EXCEPT !.files = Tail(@)]
                   /\ hashmap' = MapPut(hashmap, hash.pathOnDisk, hash)
                   /\ UNCHANGED hist
    /\ UNCHANGED <<cfg, dirs, disk, keyList, mfs, watcher, tasks, faults, last>>

\* publish-file has returned (its result is only logged): the fingerprint
\* goes into the mirror.
ReconAfter ==
    /\ main.pc = "reconAdd"
    /\ main.af.pc = "ret"
    /\ LET hash == Head(main.files)
       IN  /\ hashmap' = MapPut(hashmap, hash.pathOnDisk, hash)
           /\ main' = [main EXCEPT !.pc = "recon", !.files = Tail(@), !.af = NoAf]
    /\ UNCHANGED <<cfg, dirs, disk, db, keyList, mfs, watcher, tasks, faults, hist, last>>

\* The key scan: with a key of the directory's name in the fetched list
\* name/resolve is issued for it, otherwise key/gen.
KeyCheck ==
    /\ main.pc = "recon" => main.files = <<>>
    /\ main.pc \in {"recon", "keys"}
    /\ LET i     == main.i
           found == \E key \in main.keys : KeyMatch(key, Dir(i))
       IN  /\ main' = [main EXCEPT !.pc = IF found THEN "resolve" ELSE "generate"]
           /\ hist' = [hist EXCEPT !.checked = @ \cup {i},
                          !.generated = IF found THEN @ ELSE @ \cup {i}]
    /\ UNCHANGED <<cfg, dirs, disk, db, hashmap, keyList, mfs, watcher, tasks, faults, last>>

\* name/resolve answered, with the watch attached whatever the answer.
ResolvedWatchesAtOnce ==
    /\ main.pc = "resolve"
    /\ \E res \in Outcomes({OtherError}) :
          LET i   == main.i
              key == CHOOSE k \in main.keys : KeyMatch(k, Dir(i))
              m   == [main EXCEPT !.calls = MainLog(Call("name/resolve", key.id, Empty, res))]
          IN  /\ main' = IF res = "ok" THEN NextDir(m) ELSE [m EXCEPT !.pc = "republishStat"]
              /\ WatchDir(i)
              /\ Fault(res)
    /\ UNCHANGED <<cfg, dirs, disk, db, hashmap, keyList, mfs, tasks, hist, last>>

\* The response to name/resolve: when it resolved, the watch is attached.
Resolved ==
    /\ main.pc = "resolve"
    /\ \E res \in Outcomes({OtherError}) :
          LET i   == main.i
              key == CHOOSE k \in main.keys : KeyMatch(k, Dir(i))
              m   == [main EXCEPT !.calls = MainLog(Call("name/resolve", key.id, Empty, res))]
          IN  /\ IF res = "ok"
                 THEN main' = NextDir(m) /\ WatchDir(i)
                 ELSE main' = [m EXCEPT !.pc = "republishStat"] /\ UNCHANGED watcher
              /\ Fault(res)
    /\ UNCHANGED <<cfg, dirs, disk, db, hashmap, keyList, mfs, tasks, hist, last>>

\* getFileCID: the response to files/stat; '' on an error.
FileCID(filePath, res) ==
    IF res = "ok" THEN TreeCid(mfs, BasePath \o ToStr(filePath)) ELSE Empty

\* Republishing: the response to files/stat of the directory's MFS path.
RepublishStat ==
    /\ main.pc = "republishStat"
    /\ \E res \in Outcomes({OtherError}) :
          LET i == main.i
          IN  /\ dirs' = [dirs EXCEPT ![i].CID = FileCID(Dir(i).MFSPath, res)]
              /\ main' = [main EXCEPT !.pc = "republish",
                             !.calls = MainLog(Call("files/stat", BasePath \o ToStr(Dir(i).MFSPath), Empty, res))]
              /\ Fault(res)
    /\ UNCHANGED <<cfg, disk, db, hashmap, keyList, mfs, watcher, tasks, hist, last>>

\* Republishing: the response to name/publish (ignored); the watch is
\* attached.
Republish ==
    /\ main.pc = "republish"
    /\ \E res \in Outcomes({OtherError}) :
          LET i == main.i
              m == [main EXCEPT !.calls = MainLog(Call("name/publish", Dir(i).CID, Dir(i).ID, res))]
          IN  /\ main' = NextDir(m)
              /\ WatchDir(i)
              /\ Fault(res)
    /\ UNCHANGED <<cfg, dirs, disk, db, hashmap, keyList, mfs, tasks, hist, last>>

\* The response to key/gen, with addDir called whatever the response.
GeneratedGoesOn ==
    /\ main.pc = "generate"
    /\ \E res \in Outcomes({OtherError}) :
          LET i    == main.i
              name == KEY_SPACE \o Dir(i).ID
          IN  /\ main' = [main EXCEPT !.pc = "addDir",
                             !.calls = MainLog(Call("key/gen", name, Empty, res))]
              /\ keyList' = IF res = "ok"
                            THEN keyList \cup {DirRemoteKey(Dir(i).ID)}
                            ELSE keyList
              /\ hist' = IF res = "ok"
                         THEN [hist EXCEPT !.generatedOk = @ \cup {i}]
                         ELSE hist
              /\ Fault(res)
    /\ UNCHANGED <<cfg, dirs, disk, db, hashmap, mfs, watcher, tasks, last>>

\* The response to key/gen for '<KEY_SPACE><ID>': on an error start() returns
\* it; otherwise addDir is called.
Generated ==
    /\ main.pc = "generate"
    /\ \E res \in Outcomes({OtherError}) :
          LET i    == main.i
              name == KEY_SPACE \o Dir(i).ID
              m    == [main EXCEPT !.calls = MainLog(Call("key/gen", name, Empty, res))]
          IN  /\ main' = [m EXCEPT !.pc = IF res = "ok" THEN "addDir" ELSE "failed"]
              /\ keyList' = IF res = "ok"
                            THEN keyList \cup {DirRemoteKey(Dir(i).ID)}
                            ELSE keyList
              /\ hist' = IF res = "ok"
                         THEN [hist EXCEPT !.generatedOk = @ \cup {i}]
                         ELSE hist
              /\ Fault(res)
    /\ UNCHANGED <<cfg, dirs, disk, db, hashmap, mfs, watcher, tasks, last>>

\* addDir's dirName: pathParts.splice(-2, 1)[0].
AddDirName(path) ==
    LET pathParts == Split(path, PathSeparator)
    IN  JsAt(pathParts, JsIndex(Len(pathParts), -2))

\* addDir: walkdir(dirName) has listed the files; on an error addDir and
\* start() return it.
AddDirWalk ==
    /\ main.pc = "addDir"
    /\ LET walk == Walk(ToStr(AddDirName(Dir(main.i).Dir)))
       IN  main' = IF walk.ok
                   THEN [main EXCEPT !.pc = "addDirFile", !.files = walk.value,
                                     !.localDirs = {}]
                   ELSE [main EXCEPT !.pc = "failed"]
    /\ hist' = [hist EXCEPT !.uploaded = @ \cup {main.i}]
    /\ UNCHANGED <<cfg, dirs, disk, db, hashmap, keyList, mfs, watcher, tasks, faults, last>>

\* addDir, one file: publish-file is invoked for it.
AddDirFile ==
    /\ main.pc = "addDirFile"
    /\ main.files # <<>>
    /\ LET path      == Dir(main.i).Dir
           dirName   == AddDirName(path)
           file      == Head(main.files)
           parentDir == ParentDir(file)
           makeDir   == parentDir \notin main.localDirs
           mfsPath   == StrSlice(file, Len(path))
           af        == AfEnter(file, ToStr(dirName) \o <<47>> \o mfsPath,
                                Dir(main.i).Nocopy, makeDir, FALSE, 0, "ok", Empty)
       IN  main' = [main EXCEPT !.pc = "addDirAdd", !.af = af,
                                !.localDirs = @ \cup {parentDir},
                                !.calls = MainLog(AfInvocation(af))]
    /\ UNCHANGED <<cfg, dirs, disk, db, hashmap, keyList, mfs, watcher, tasks, faults, hist, last>>

\* addDir: publish-file has returned (its result is only logged).
AddDirAfter ==
    /\ main.pc = "addDirAdd"
    /\ main.af.pc = "ret"
    /\ main' = [main EXCEPT !.pc = "addDirFile", !.files = Tail(@), !.af = NoAf]
    /\ UNCHANGED <<cfg, dirs, disk, db, hashmap, keyList, mfs, watcher, tasks, faults, hist, last>>

\* What follows the files/stat of addDir, and then the pin.
AfterAddDirStat(d) == IF d.Pin THEN "addDirPin" ELSE IF d.Estuary THEN "addDirEstuary" ELSE "publish"
AfterAddDirPin(d) == IF d.Estuary THEN "addDirEstuary" ELSE "publish"

\* addDir: the response to files/stat of dirName.
AddDirStat ==
    /\ main.pc = "addDirFile"
    /\ main.files = <<>>
    /\ \E res \in Outcomes({OtherError}) :
          LET dirName == AddDirName(Dir(main.i).Dir)
          IN  /\ main' = [main EXCEPT !.pc = AfterAddDirStat(Dir(main.i)),
                             !.cid = FileCID(dirName, res),
                             !.calls = MainLog(Call("files/stat", BasePath \o ToStr(dirName), Empty, res))]
              /\ Fault(res)
    /\ UNCHANGED <<cfg, dirs, disk, db, hashmap, keyList, mfs, watcher, tasks, hist, last>>

\* addDir: the response to pin/add (an error is only logged).
AddDirPin ==
    /\ main.pc = "addDirPin"
    /\ \E res \in Outcomes({OtherError}) :
          /\ main' = [main EXCEPT !.pc = AfterAddDirPin(Dir(main.i)),
                         !.calls = MainLog(Call("pin/add", main.cid, Empty, res))]
          /\ Fault(res)
    /\ UNCHANGED <<cfg, dirs, disk, db, hashmap, keyList, mfs, watcher, tasks, hist, last>>

\* EstuaryClient.pin: with an API key configured it returns an error without
\* a request; otherwise it posts pinning/pins.
EstuaryPinCalls(calls, cid, name, res) ==
    IF cfg.estuaryApiKey THEN calls
    ELSE Append(calls, Call("pinning/pins", cid, name, res))
EstuaryPinOutcomes == IF cfg.estuaryApiKey THEN {"ok"} ELSE Outcomes({OtherError})

\* addDir: estuaryClient.pin(cid, dirName) has returned (an error is only
\* logged).
AddDirEstuary ==
    /\ main.pc = "addDirEstuary"
    /\ \E res \in EstuaryPinOutcomes :
          /\ main' = [main EXCEPT !.pc = "publish",
                         !.calls = EstuaryPinCalls(main.calls, main.cid,
                                       ToStr(AddDirName(Dir(main.i).Dir)), res)]
          /\ Fault(res)
    /\ UNCHANGED <<cfg, dirs, disk, db, hashmap, keyList, mfs, watcher, tasks, hist, last>>

\* addDir has returned ok(cid): the response to name/publish (ignored); the
\* watch is attached.
GenPublish ==
    /\ main.pc = "publish"
    /\ \E res \in Outcomes({OtherError}) :
          LET i == main.i
              m == [main EXCEPT !.calls = MainLog(Call("name/publish", main.cid, Dir(i).ID, res))]
          IN  /\ dirs' = [dirs EXCEPT ![i].CID = main.cid]
              /\ main' = NextDir(m)
              /\ WatchDir(i)
              /\ Fault(res)
    /\ UNCHANGED <<cfg, disk, db, hashmap, keyList, mfs, tasks, hist, last>>

---------------------------------------------------------------------------
(* Watchdog.start: the main loop *)

\* The loop goes on to the next directory, or sleeps again.
TickNext(m) ==
    IF m.i < Len(dirs) THEN [m EXCEPT !.pc = "tickStat", !.i = @ + 1]
    ELSE [m EXCEPT !.pc = "sleep"]

AfterDrift(d) == IF d.Pin THEN "pinUpdate" ELSE IF d.Estuary THEN "estGet" ELSE "tickPublish"
AfterPinUpdate(d) == IF d.Estuary THEN "estGet" ELSE "tickPublish"

\* The invocations the main loop makes for a directory that drifted.
DriftCalls(d, fcid) ==
    (IF d.Pin THEN <<Call("updatePin", d.CID, fcid, "")>> ELSE <<>>)
    \o (IF d.Estuary THEN <<Call("estuary.updatePin", d.CID, fcid, "")>> ELSE <<>>)

\* sleep(config.sync) is over.
Sleep ==
    /\ main.pc = "sleep"
    /\ main' = [main EXCEPT !.pc = "tickStat", !.i = 1]
    /\ UNCHANGED <<cfg, dirs, disk, db, hashmap, keyList, mfs, watcher, tasks, faults, hist, last>>

\* The response to files/stat taken as a drift whenever the identifier is
\* not the stored one, '' included.
TickStatAnyChange ==
    /\ main.pc = "tickStat"
    /\ \E res \in Outcomes({OtherError}) :
          LET d    == Dir(main.i)
              fcid == FileCID(d.MFSPath, res)
          IN  /\ IF fcid # d.CID
                 THEN /\ main' = [main EXCEPT !.pc = AfterDrift(d), !.fcid = fcid,
                                     !.of = main.i, !.calls = DriftCalls(d, fcid)]
                      /\ hist' = [hist EXCEPT !.tick = [state |-> "open", d |-> main.i,
                                                        a |-> d.CID, b |-> fcid]]
                 ELSE /\ main' = TickNext(main)
                      /\ UNCHANGED hist
              /\ Fault(res)
    /\ UNCHANGED <<cfg, dirs, disk, db, hashmap, keyList, mfs, watcher, tasks, last>>

\* The response to files/stat of the directory's MFS path: the directory
\* drifted when the identifier is not '' and not the stored one.
TickStat ==
    /\ main.pc = "tickStat"
    /\ \E res \in Outcomes({OtherError}) :
          LET d    == Dir(main.i)
              fcid == FileCID(d.MFSPath, res)
          IN  /\ IF fcid # Empty /\ fcid # d.CID
                 THEN /\ main' = [main EXCEPT !.pc = AfterDrift(d), !.fcid = fcid,
                                     !.of = main.i, !.calls = DriftCalls(d, fcid)]
                      /\ hist' = [hist EXCEPT !.tick = [state |-> "open", d |-> main.i,
                                                        a |-> d.CID, b |-> fcid]]
                 ELSE /\ main' = TickNext(main)
                      /\ UNCHANGED hist
              /\ Fault(res)
    /\ UNCHANGED <<cfg, dirs, disk, db, hashmap, keyList, mfs, watcher, tasks, last>>

\* IpfsClient.updatePin: the response to pin/updated.  On an error
\* handleBadBlockError(error, '', noCopy) decides what follows.
PinUpdated ==
    /\ main.pc = "pinUpdate"
    /\ \E res \in Outcomes({BadBlock, NoSuchFile, OtherError}) :
          /\ main' = [main EXCEPT
                         !.pc = IF res = "ok" THEN AfterPinUpdate(Dir(main.i))
                                ELSE IF IsBadBlockError(res) THEN "cleanFilestore"
                                ELSE "pinAdd",
                         !.calls = MainLog(Call("pin/updated", Dir(main.i).CID, main.fcid, res))]
          /\ Fault(res)
    /\ UNCHANGED <<cfg, dirs, disk, db, hashmap, keyList, mfs, watcher, tasks, hist, last>>

\* handleBadBlockError without a file path: cleanFilestore() has run, and
\* updatePin calls itself again.
CleanFilestore ==
    /\ main.pc = "cleanFilestore"
    /\ main' = [main EXCEPT !.pc = "pinUpdate",
                            !.calls = MainLog(Call("cleanFilestore", Empty, Empty, "ok"))]
    /\ UNCHANGED <<cfg, dirs, disk, db, hashmap, keyList, mfs, watcher, tasks, faults, hist, last>>

\* IpfsClient.updatePin: the response to pin/add of the new identifier.
PinAdded ==
    /\ main.pc = "pinAdd"
    /\ \E res \in Outcomes({OtherError}) :
          /\ main' = [main EXCEPT !.pc = AfterPinUpdate(Dir(main.i)),
                                  !.calls = MainLog(Call("pin/add", main.fcid, Empty, res))]
          /\ Fault(res)
    /\ UNCHANGED <<cfg, dirs, disk, db, hashmap, keyList, mfs, watcher, tasks, hist, last>>

\* The responses the pinning service can give to the pin listing: a list
\* holding a pin of the old identifier, a list without one, an error, or a
\* body that is not the expected JSON.
Malformed == "malformed"
PinListings ==
    {"match", "nomatch"} \cup (IF faults < MaxFaults THEN {OtherError, Malformed} ELSE {})

\* EstuaryClient.updatePin: the response to GET pinning/pins.  JSON.parse or
\* the iteration of pins.results throws on a malformed body, which ends
\* start().
EstuaryListed ==
    /\ main.pc = "estGet"
    /\ \E res \in PinListings :
          /\ main' = [main EXCEPT
                         !.pc = CASE res = "match" -> "estReplace"
                                  [] res = "nomatch" -> "estPin"
                                  [] res = OtherError -> "tickPublish"
                                  [] OTHER -> "crashed",
                         !.calls = MainLog(Call("GET pinning/pins", Dir(main.i).CID, Empty, res))]
          /\ hist' = IF res = Malformed THEN [hist EXCEPT !.tick.state = "crashed"] ELSE hist
          /\ faults' = IF res \in {OtherError, Malformed} THEN faults + 1 ELSE faults
    /\ UNCHANGED <<cfg, dirs, disk, db, hashmap, keyList, mfs, watcher, tasks, last>>

\* EstuaryClient.updatePin: the response to the replacement of the pin.
EstuaryReplaced ==
    /\ main.pc = "estReplace"
    /\ \E res \in Outcomes({OtherError}) :
          /\ main' = [main EXCEPT !.pc = IF res = "ok" THEN "tickPublish" ELSE "estPin",
                         !.calls = MainLog(Call("pinning/pins/<id>", main.fcid,
                                                JsAt(Split(Dir(main.i).MFSPath, 47), 0), res))]
          /\ Fault(res)
    /\ UNCHANGED <<cfg, dirs, disk, db, hashmap, keyList, mfs, watcher, tasks, hist, last>>

\* EstuaryClient.updatePin: this.pin(newCid, name) has returned.
EstuaryPinned ==
    /\ main.pc = "estPin"
    /\ \E res \in EstuaryPinOutcomes :
          /\ main' = [main EXCEPT !.pc = "tickPublish",
                         !.calls = EstuaryPinCalls(main.calls, main.fcid,
                                       JsAt(Split(Dir(main.i).MFSPath, 47), 0), res)]
          /\ Fault(res)
    /\ UNCHANGED <<cfg, dirs, disk, db, hashmap, keyList, mfs, watcher, tasks, hist, last>>

\* The response to name/publish (ignored): the stored identifier becomes the
\* one found.
TickPublish ==
    /\ main.pc = "tickPublish"
    /\ \E res \in Outcomes({OtherError}) :
          LET i == main.i
              m == [main EXCEPT !.calls = MainLog(Call("name/publish", main.fcid, Dir(i).ID, res))]
          IN  /\ dirs' = [dirs EXCEPT ![i].CID = main.fcid]
              /\ main' = TickNext(m)
              /\ hist' = [hist EXCEPT !.tick.state = "done"]
              /\ Fault(res)
    /\ UNCHANGED <<cfg, disk, db, hashmap, keyList, mfs, watcher, tasks, last>>

---------------------------------------------------------------------------
(* The watch: file-system events and their handlers *)

\* path.normalize on the paths used here: repeated separators collapse.
RECURSIVE Normalize(_)
Normalize(p) ==
    IF Len(p) < 2 THEN p
    ELSE IF p[1] = PathSeparator /\ p[2] = PathSeparator THEN Normalize(Tail(p))
    ELSE <<p[1]>> \o Normalize(Tail(p))

\* The closure variable dirName of watchDir.
WatchDirName(dir) == JsAt(JsSlice(Split(dir.Dir, PathSeparator), -2, 1), 0)

\* The overwrite argument the add and change listeners pass.
WatchOverwriteOff == FALSE
WatchOverwrite == TRUE

\* The watched roots that hold the file or directory at absolute path abs.
RootsOf(abs) ==
    {w \in watcher.watched : StartsWith(abs, Resolve(w)) \/ AsDir(abs) = Resolve(w)}

\* The path an event carries: the path below the root as it was given to
\* the watcher; the root itself is reported without its final separator.
EventPath(w, abs) ==
    IF AsDir(abs) = Resolve(w) THEN SubSeq(w, 1, Len(w) - 1)
    ELSE w \o StrSlice(abs, Len(Resolve(w)))

\* The two tests every listener starts with.
Listens(dir, path) == StartsWith(path, dir.Dir) /\ ~ShouldIgnorePath(path)

\* The listener of an add or change event, up to its first await: it reads
\* the file as the write that raised the event has left it.
AddTask(kind, i, path) ==
    LET dir       == Dir(i)
        parentDir == ParentDir(path)
        makeDir   == parentDir \notin watcher.localDirs[i]
        mfsPath   == StrSlice(path, Len(dir.Dir))
        af        == [AfEnter(path, ToStr(WatchDirName(dir)) \o <<47>> \o mfsPath,
                              dir.Nocopy, makeDir, WatchOverwrite, 0, "ok", Empty)
                         EXCEPT !.pc = "add", !.content = disk'[Resolve(path)].content]
    IN  IF Listens(dir, path)
        THEN [kind |-> kind, d |-> i, path |-> path, pc |-> "adding", af |-> af,
              calls |-> <<AfInvocation(af)>>]
        ELSE [kind |-> kind, d |-> i, path |-> path, pc |-> "skipped", af |-> NoAf,
              calls |-> <<>>]

\* The listener of an unlink or unlinkDir event, up to its first await
\* (removeDir calls removeFile; a removed root that passed the tests would be
\* unwatched).
RemoveTask(kind, i, path) ==
    [kind |-> kind, d |-> i, path |-> path,
     pc |-> IF Listens(Dir(i), path) THEN "removing" ELSE "skipped",
     af |-> NoAf, calls |-> <<>>]
Unwatches(kind, i, path) ==
    /\ kind = "unlinkDir"
    /\ Listens(Dir(i), path)
    /\ Normalize(path) = Normalize(Dir(i).Dir)

\* The listeners are registered directory by directory, and every event
\* goes to the listeners of every directory registered so far.
Registered == 1..Cardinality(watcher.listeners)

\* The second configured directory lies inside the first.
Nested == Len(dirs) = 2 /\ StartsWith(Dir(2).Dir, Dir(1).Dir)

\* The files that get written while the program runs: a and .h, s/b when
\* the directories are nested, and also .g/x in the run over two siblings.
WrittenFiles == hist.writable

\* A file of the directory is written.  When a watched root holds it, an
\* add or a change event is delivered.
FsWrite ==
    /\ hist.events < hist.cap
    /\ \E f \in WrittenFiles, file \in FileStates :
          /\ f \in DOMAIN disk => disk[f] # file
          /\ f = FileHidden => file = FileV1
          /\ disk' = MapPut(disk, f, file)
          /\ IF RootsOf(f) = {}
             THEN UNCHANGED <<tasks, watcher>>
             ELSE \E w \in RootsOf(f) :
                     LET path == EventPath(w, f)
                         kind == IF f \in DOMAIN disk THEN "change" ELSE "add"
                     IN  /\ tasks' = tasks \o [i \in Registered |-> AddTask(kind, i, path)]
                         /\ watcher' = [watcher EXCEPT !.localDirs =
                                 [i \in DOMAIN @ |->
                                     IF i \in Registered /\ Listens(Dir(i), path)
                                     THEN @[i] \cup {ParentDir(path)} ELSE @[i]]]
    /\ hist' = [hist EXCEPT !.events = @ + 1]
    /\ UNCHANGED <<cfg, dirs, db, hashmap, keyList, mfs, main, faults, last>>

\* A file, a sub-directory or the root itself is removed.  When a watched
\* root holds it, an unlink or an unlinkDir event is delivered for it.
FsRemove ==
    /\ hist.events < hist.cap
    /\ \E target \in {FileA, SubDir, RootDir} :
          LET kind == IF target = FileA THEN "unlink" ELSE "unlinkDir"
              gone == {f \in DOMAIN disk : f = target \/ StartsWith(f, AsDir(target))}
          IN  /\ gone # {}
              /\ disk' = MapDelAll(disk, gone)
              /\ IF RootsOf(target) = {}
                 THEN UNCHANGED <<tasks, watcher>>
                 ELSE \E w \in RootsOf(target) :
                         LET path == EventPath(w, target)
                             off  == {i \in Registered : Unwatches(kind, i, path)}
                         IN  /\ tasks' = tasks \o [i \in Registered |-> RemoveTask(kind, i, path)]
                             /\ watcher' = [watcher EXCEPT
                                     !.watched = @ \ {Dir(i).Dir : i \in off},
                                     !.localDirs = [i \in DOMAIN @ |->
                                         IF i \in off THEN @[i] \ {path} ELSE @[i]]]
    /\ hist' = [hist EXCEPT !.events = @ + 1]
    /\ UNCHANGED <<cfg, dirs, db, hashmap, keyList, mfs, main, faults, last>>

\* The add/change listener holding its writes back while the reconciliation
\* has a publish-file in flight.
HandlerAddedAfterRecon(t) ==
    /\ t \in 1..Len(tasks)
    /\ tasks[t].pc = "adding"
    /\ tasks[t].af.pc = "ret"
    /\ main.pc # "reconAdd"
    /\ LET path     == tasks[t].path
           dir      == Dir(tasks[t].d)
           there    == Resolve(path) \in DOMAIN disk
           fileHash == MapGet(hashmap, path, FileHash(path, Empty, Empty))
           r        == Recalculate(fileHash, dir.DontHash, disk[Resolve(path)])
           u        == HashUpdate(fileHash)
       IN  IF there
           THEN /\ hashmap' = MapPut(hashmap, path, r.fh)
                /\ db' = u.db
                /\ tasks' = [tasks EXCEPT ![t].pc = "done", ![t].af = NoAf]
           ELSE /\ tasks' = [tasks EXCEPT ![t].pc = "crashed", ![t].af = NoAf]
                /\ UNCHANGED <<db, hashmap>>
    /\ UNCHANGED <<cfg, dirs, disk, keyList, mfs, watcher, main, faults, hist, last>>

\* The add/change listener after publish-file returned: the fingerprint of
\* the mirror (or an empty one) is recalculated into the mirror, and update
\* is applied to the fingerprint as it was before.  statSync throws when the
\* file is gone.
HandlerAdded(t) ==
    /\ t \in 1..Len(tasks)
    /\ tasks[t].pc = "adding"
    /\ tasks[t].af.pc = "ret"
    /\ LET path     == tasks[t].path
           dir      == Dir(tasks[t].d)
           there    == Resolve(path) \in DOMAIN disk
           fileHash == MapGet(hashmap, path, FileHash(path, Empty, Empty))
           r        == Recalculate(fileHash, dir.DontHash, disk[Resolve(path)])
           u        == HashUpdate(fileHash)
       IN  IF there
           THEN /\ hashmap' = MapPut(hashmap, path, r.fh)
                /\ db' = u.db
                /\ tasks' = [tasks EXCEPT ![t].pc = "done", ![t].af = NoAf]
           ELSE /\ tasks' = [tasks EXCEPT ![t].pc = "crashed", ![t].af = NoAf]
                /\ UNCHANGED <<db, hashmap>>
    /\ UNCHANGED <<cfg, dirs, disk, keyList, mfs, watcher, main, faults, hist, last>>

\* The unlink/unlinkDir listener: the response to files/rm (an error is only
\* logged), then hashProcessor.delete(mfsPath).
HandlerRemoved(t) ==
    /\ t \in 1..Len(tasks)
    /\ tasks[t].pc = "removing"
    /\ \E res \in Outcomes({OtherError}) :
          LET path    == tasks[t].path
              dir     == Dir(tasks[t].d)
              mfsPath == StrSlice(path, Len(dir.Dir))
              target  == BasePath \o ToStr(WatchDirName(dir)) \o <<47>> \o mfsPath
              r       == HashDelete(mfsPath)
          IN  /\ mfs' = IF res = "ok" THEN MfsRemove(mfs, target) ELSE mfs
              /\ db' = r.db
              /\ hashmap' = r.hashmap
              /\ tasks' = [tasks EXCEPT ![t].pc = "done",
                              ![t].calls = Append(@, Call("rm", target, TRUE, res))]
              /\ Fault(res)
    /\ UNCHANGED <<cfg, dirs, disk, keyList, watcher, main, hist, last>>

\* readFileSync threw inside publish-file: the exception ends the task.
TaskThrew(t) ==
    /\ TaskOf(t).af.pc = "threw"
    /\ IF t = 0
       THEN main' = [main EXCEPT !.pc = "crashed", !.af = NoAf] /\ UNCHANGED tasks
       ELSE tasks' = [tasks EXCEPT ![t].pc = "crashed", ![t].af = NoAf] /\ UNCHANGED main
    /\ UNCHANGED <<cfg, dirs, disk, db, hashmap, keyList, mfs, watcher, faults, hist, last>>

---------------------------------------------------------------------------
(* The engine *)

Next ==
    \/ ListKeys \/ DirBegin \/ ReconFile \/ ReconAfter \/ KeyCheck
    \/ Resolved \/ RepublishStat \/ Republish
    \/ Generated \/ AddDirWalk \/ AddDirFile \/ AddDirAfter \/ AddDirStat
    \/ AddDirPin \/ AddDirEstuary \/ GenPublish
    \/ Sleep \/ TickStat \/ PinUpdated \/ CleanFilestore \/ PinAdded
    \/ EstuaryListed \/ EstuaryReplaced \/ EstuaryPinned \/ TickPublish
    \/ FsWrite \/ FsRemove
    \/ \E t \in TaskIds : AfAdd(t)
    \/ \E t \in TaskIds : AfMkdir(t)
    \/ \E t \in TaskIds : AfRm(t)
    \/ \E t \in TaskIds : AfCp(t)
    \/ \E t \in TaskIds : AfHbAdd(t)
    \/ \E t \in TaskIds : AfHbRemove(t)
    \/ \E t \in TaskIds : HandlerAdded(t)
    \/ \E t \in TaskIds : HandlerRemoved(t)
    \/ \E t \in TaskIds : TaskThrew(t)

Spec == Init /\ [][Next]_vars

\* The same program configured with nested directories.
SpecNested == InitNested /\ [][Next]_vars

\* The same program with two files in one directory.
SpecSiblings == InitSiblings /\ [][Next]_vars

\* The same program with one file that is removed and written again, up to
\* the first sleep of the main loop: the startup and the listeners.
RaceNext ==
    \/ ListKeys \/ DirBegin \/ ReconFile \/ ReconAfter \/ KeyCheck
    \/ Resolved \/ RepublishStat \/ Republish
    \/ Generated \/ AddDirWalk \/ AddDirFile \/ AddDirAfter \/ AddDirStat
    \/ AddDirPin \/ AddDirEstuary \/ GenPublish
    \/ FsWrite \/ FsRemove
    \/ \E t \in TaskIds : AfAdd(t)
    \/ \E t \in TaskIds : AfMkdir(t)
    \/ \E t \in TaskIds : AfRm(t)
    \/ \E t \in TaskIds : AfCp(t)
    \/ \E t \in TaskIds : AfHbAdd(t)
    \/ \E t \in TaskIds : AfHbRemove(t)
    \/ \E t \in TaskIds : HandlerAdded(t)
    \/ \E t \in TaskIds : HandlerRemoved(t)
    \/ \E t \in TaskIds : TaskThrew(t)
SpecRace == InitRace /\ [][RaceNext]_vars

---------------------------------------------------------------------------
(* Claims about the fingerprint store, checked under SpecStore *)

\* p itself or a path below the directory p.
IsUnder(k, p) == k = p \/ StartsWith(k, p \o <<47>>)

\* C2: delete(p) removes the content entry, the ts_ entry and the mirror
\* entry of p and of every path under p, and leaves every other entry as it
\* was (a sibling sharing only a partial prefix, a key sorting after p).
C2_DeleteRemovesOnlySubtree ==
    [][last'.op = "delete" =>
        LET p    == last'.arg
            gone == {k \in DOMAIN db :
                        \/ IsUnder(k, p)
                        \/ \E q \in DOMAIN db \cup DOMAIN hashmap :
                              IsUnder(q, p) /\ k = TsKey(q)}
        IN  /\ db' = [k \in (DOMAIN db) \ gone |-> db[k]]
            /\ hashmap' = [k \in {q \in DOMAIN hashmap : ~IsUnder(q, p)} |-> hashmap[k]]
    ]_vars

C6_RecalculateShortCircuit ==
    (last.op \in {"scan", "watch"} /\ last.rec.at = last.rec.stat)
        => (last.rec.ret = last.rec.arg /\ ~last.rec.read)

\* C6 witness: a fingerprint with a content digest, recalculated with content
\* hashing on over a file whose size and time are unchanged, came back as it
\* was without a read of the content.
C6_Witness ==
    /\ last.op \in {"scan", "watch"}
    /\ ~last.rec.dontHash
    /\ last.rec.at = last.rec.stat
    /\ last.rec.arg.hash \notin {Empty, Undefined}
    /\ last.rec.ret = last.rec.arg
    /\ ~last.rec.read

---------------------------------------------------------------------------
(* Claims about the engine, checked under Spec *)

LogOf(t) == TaskOf(t).calls
IsInvocation(call) == call.op = "addFile"

\* C1: for every file under a configured directory with a durable store
\* whose stored quick digest no longer matches the file when the program
\* starts, reconciliation has invoked publish-file before the directory's
\* watch is attached, whatever the directory's DontHash setting.  (Runs in
\* which the files change again while the program runs are left aside.)
C1_ReconciliationPublishesModified ==
    (cfg.hasDb /\ hist.events = 0 /\ 1 \in watcher.listeners)
        => \A f \in hist.stale : f \in hist.recon

\* C3: when the listener of an unlink or unlinkDir event for a path p below
\* the watched root has finished, files/rm has been issued for p's path in
\* the mutable namespace, and neither the store nor the mirror holds an
\* entry (content or ts_) for p or for a path under p.
C3_DeleteEventClearsPath ==
    \A t \in 1..Len(tasks) :
        (tasks[t].kind \in {"unlink", "unlinkDir"} /\ tasks[t].pc = "done")
            => LET p      == tasks[t].path
                   dir    == Dir(tasks[t].d)
                   target == BasePath \o dir.MFSPath \o <<47>> \o StrSlice(p, Len(dir.Dir))
               IN  /\ \E k \in 1..Len(tasks[t].calls) :
                          tasks[t].calls[k].op = "rm" /\ tasks[t].calls[k].a = target
                   /\ \A k \in DOMAIN db :
                          ~IsUnder(k, p) /\ ~(\E q \in DOMAIN db \cup {p} : IsUnder(q, p) /\ k = TsKey(q))
                   /\ ~(TsKey(p) \in DOMAIN db)
                   /\ \A k \in DOMAIN hashmap : ~IsUnder(k, p)

MainCount(op) == Cardinality({k \in 1..Len(main.calls) : main.calls[k].op = op})

\* C7: when the main loop is through with a directory whose stored
\* identifier A (a set one) differed from the identifier B found, it has
\* made exactly one pin update (with Pin), exactly one mirror call (with
\* Estuary) and exactly one name/publish, and the stored identifier is B.
C7_DriftTickUpdatesOnce ==
    (hist.tick.state \in {"done", "crashed"} /\ hist.tick.a # Undefined)
        => LET d == Dir(hist.tick.d)
           IN  /\ MainCount("updatePin") = IF d.Pin THEN 1 ELSE 0
               /\ MainCount("estuary.updatePin") = IF d.Estuary THEN 1 ELSE 0
               /\ MainCount("name/publish") = 1
               /\ d.CID = hist.tick.b

\* C8: every repeated run of publish-file follows a files/cp that failed
\* with a bad-block message, then a successful hash-only add, then the
\* recursive removal of the identifier that add returned.
C8_RetryFollowsRecovery ==
    \A t \in TaskIds :
        \A k \in 1..Len(LogOf(t)) :
            (IsInvocation(LogOf(t)[k]) /\ LogOf(t)[k].depth > 0)
                => /\ k > 3
                   /\ LogOf(t)[k - 3].op = "cp"
                   /\ IsBadBlockError(LogOf(t)[k - 3].res)
                   /\ LogOf(t)[k - 2].op = "add"
                   /\ LogOf(t)[k - 2].b = TRUE
                   /\ LogOf(t)[k - 2].res = "ok"
                   /\ LogOf(t)[k - 1].op = "removeCID"

\* C9: every name/publish made for directory D names D's key: the key
\* called '<KEY_SPACE><D.ID>', by that name or by its id.
C9_PublishNamesDirectoryKey ==
    \A k \in 1..Len(main.calls) :
        main.calls[k].op = "name/publish"
            => \/ main.calls[k].b = KEY_SPACE \o Dir(main.of).ID
               \/ \E key \in keyList :
                     key.name = KEY_SPACE \o Dir(main.of).ID /\ main.calls[k].b = key.id

\* The fetched key list holds a key called '<KEY_SPACE><D.ID>'.
HasKey(i) == \E key \in main.keys : key.name = KEY_SPACE \o dirs[i].ID
StartupEnded == main.pc \notin {"listKeys", "dir", "recon", "reconAdd", "keys", "resolve",
                                "republishStat", "republish", "generate", "addDir",
                                "addDirFile", "addDirAdd", "addDirPin", "addDirEstuary",
                                "publish"}

\* C10 as stated: once startup is over, key/gen and the full upload have
\* both happened for a directory whose key scan was reached if and only if
\* the fetched list held no key called '<KEY_SPACE><D.ID>'.
C10_Original ==
    StartupEnded
        => \A i \in hist.checked :
              (i \in hist.generated /\ i \in hist.uploaded) <=> ~HasKey(i)

\* C10, amended: key/gen is issued for a directory exactly when its key scan
\* is reached and the fetched list holds no key called '<KEY_SPACE><D.ID>';
\* the full upload (addDir) is started exactly when that key/gen succeeded;
\* with such a key in the list neither happens.
C10_GenerateIffNoKey ==
    \A i \in 1..Len(dirs) :
        /\ i \in hist.generated <=> (i \in hist.checked /\ ~HasKey(i))
        /\ hist.generatedOk \subseteq hist.generated
        /\ i \in hist.uploaded => i \in hist.generatedOk
        /\ i \in hist.generatedOk
              => (i \in hist.uploaded \/ (main.i = i /\ main.pc = "addDir"))

\* A directory without a key has been uploaded and is watched.
C10_Witness ==
    /\ 1 \in hist.uploaded
    /\ 1 \in watcher.listeners
    /\ ~HasKey(1)

\* The calls start() has made for a directory when it attaches the watch:
\* the key resolved; or it did not, the identifier was read from
\* files/stat and published; or the key was generated, addDir ran up to its
\* files/stat and the identifier was published.
AttachedAfter(calls, i) ==
    LET n == Len(calls)
    IN  /\ n > 0
        /\ \/ calls[n].op = "name/resolve" /\ calls[n].res = "ok"
           \/ /\ n > 2
              /\ calls[n].op = "name/publish"
              /\ calls[n - 1].op = "files/stat"
              /\ calls[n - 2].op = "name/resolve" /\ calls[n - 2].res # "ok"
           \/ /\ calls[n].op = "name/publish"
              /\ i \in hist.uploaded
              /\ \E g \in 1..n, u \in 1..n :
                    /\ g < u
                    /\ calls[g].op = "key/gen" /\ calls[g].res = "ok"
                    /\ calls[u].op = "files/stat"
                    /\ \A k \in g..n : IsInvocation(calls[k]) => k < u

C12_Original ==
    (cfg.hasDb /\ watcher.listeners # {})
        => \A i \in 1..Len(dirs) : i \in hist.checked

\* C12, amended: a directory is watched only when reconciliation has run
\* for it and for every directory configured before it; start() is not
\* walking or reconciling a watched directory.
C12_WatchAfterOwnReconciliation ==
    \A i \in watcher.listeners :
        \A j \in 1..i :
            /\ j \in hist.checked
            /\ ~(main.i = j /\ main.pc \in {"dir", "recon", "reconAdd"})

\* The first directory is watched while the second is being reconciled.
C12_Witness ==
    /\ cfg.hasDb
    /\ Len(dirs) = 2
    /\ 1 \in watcher.listeners
    /\ main.i = 2
    /\ main.pc = "recon"

\* C13 as stated: after an earlier run that uploaded the directory, with or
\* without a store, with every file as that run left it and no change
\* since, reconciliation invokes publish-file for no file.
C13_RescanUpdatesNothing ==
    (/\ hist.prior # "none"
     /\ hist.events = 0
     /\ \A p \in DOMAIN disk : disk[p] = FileV1)
        => hist.recon = {}

\* C13, amended: after an earlier run that uploaded the directory and had a
\* store, with every file as that run left it and no change since,
\* reconciliation invokes publish-file for no file and writes nothing to
\* the store.
C13_RescanAfterStoredUpload ==
    (/\ hist.prior = "stored"
     /\ hist.events = 0
     /\ \A p \in DOMAIN disk : disk[p] = FileV1)
        => /\ hist.recon = {}
           /\ main.pc \in {"recon", "reconAdd"}
                 => \A k \in 1..Len(main.calls) : ~IsInvocation(main.calls[k])

\* Reconciliation of an unchanged directory is over and published nothing.
C13_Witness ==
    /\ hist.prior = "stored"
    /\ cfg.hasDb
    /\ hist.events = 0
    /\ \A p \in DOMAIN disk : disk[p] = FileV1
    /\ main.pc = "recon"
    /\ main.files = <<>>
    /\ {FileA, FileB} \subseteq DOMAIN hashmap
    /\ hist.recon = {}

\* The step of task t is the response to the files/cp of a publish-file
\* that found the target linked to the identifier of the content it read:
\* the file was published before with identical content.
RepublishedBy(t) ==
    /\ t <= Len(tasks)
    /\ TaskOf(t).af.pc = "cp"
    /\ TaskOf(t).af.was = Cid(TaskOf(t).af.content)
    /\ TaskOf(t)'.af # TaskOf(t).af
Target(t) == BasePath \o TaskOf(t).af.mfsPath

C15_RootRemovalDetaches ==
    \A t \in 1..Len(tasks) :
        (/\ tasks[t].kind = "unlinkDir"
         /\ AsDir(tasks[t].path) = Dir(tasks[t].d).Dir)
            => Dir(tasks[t].d).Dir \notin watcher.watched

---------------------------------------------------------------------------
(* walkdir alone, over the directory trees made of a few files *)

FileSwp == <<47, 100, 47, 120, 46, 115, 119, 112>>     \* /d/x.swp
\* /d/a, /d/s/b, /d/.h, /d/.g/x, /d/s/.k and /d/x.swp
WalkFiles ==
    {FileA, FileB, FileHidden, FileInHidden,
     <<47, 100, 47, 115, 47, 46, 107>>, FileSwp}
\* "/d/", "d/", /d/s and /d/.g
WalkRoots == {DirAbs, DirRel, SubDir, <<47, 100, 47, 46, 103>>}

\* readdir(dir): the names of the entries of the directory root (which ends
\* with "/"), in byte order.
ReadDir(root) ==
    LET under == {f \in DOMAIN disk : StartsWith(f, root)}
        name(f) == LET rest == StrSlice(f, Len(root))
                       hits == {i \in 1..Len(rest) : rest[i] = PathSeparator}
                   IN  IF hits = {} THEN rest ELSE SubSeq(rest, 1, Min(hits) - 1)
    IN  SortedSeq({name(f) : f \in under})

\* walkdir taking every directory for a file to keep.
WalkDirFlat(dir) ==
    LET root == AsDir(Resolve(dir))
        entries == ReadDir(root)
        step[k \in 0..Len(entries)] ==
            IF k = 0 THEN [ok |-> TRUE, value |-> <<>>, asked |-> <<>>]
            ELSE LET path == root \o entries[k]
                     sofar == step[k - 1]
                 IN  IF ShouldIgnorePath(path)
                     THEN [sofar EXCEPT !.asked = Append(@, path)]
                     ELSE [sofar EXCEPT !.asked = Append(@, path),
                                        !.value = Append(@, path)]
    IN  IF Len(entries) = 0 THEN [ok |-> FALSE, value |-> <<>>, asked |-> <<>>]
        ELSE step[Len(entries)]

\* walkdir(dir, shouldIgnorePath) as the code computes it: the entries of
\* dir are resolved and tested one by one, a file that is not ignored is
\* kept, a directory that is not ignored is walked in turn.  asked is the
\* sequence of paths the predicate was called with.  The listing fails for
\* a directory that does not exist.
RECURSIVE WalkDir(_)
WalkDir(dir) ==
    LET root == AsDir(Resolve(dir))
        entries == ReadDir(root)
        step[k \in 0..Len(entries)] ==
            IF k = 0 THEN [ok |-> TRUE, value |-> <<>>, asked |-> <<>>]
            ELSE LET path == root \o entries[k]
                     sofar == step[k - 1]
                 IN  IF ~sofar.ok THEN sofar
                     ELSE IF ShouldIgnorePath(path)
                     THEN [sofar EXCEPT !.asked = Append(@, path)]
                     ELSE IF path \in DOMAIN disk
                     THEN [sofar EXCEPT !.asked = Append(@, path),
                                        !.value = Append(@, path)]
                     ELSE LET nested == WalkDir(path)
                          IN  [ok |-> nested.ok,
                               value |-> sofar.value \o nested.value,
                               asked |-> Append(sofar.asked, path) \o nested.asked]
    IN  IF Len(entries) = 0 THEN [ok |-> FALSE, value |-> <<>>, asked |-> <<>>]
        ELSE step[Len(entries)]

WalkInit ==
    /\ \E files \in SUBSET WalkFiles, hidden \in BOOLEAN, cwd \in {CwdRoot, CwdOther} :
          /\ cfg = [hasDb |-> FALSE, ignoreHidden |-> hidden, ignore |-> DefaultIgnore,
                    cwd |-> cwd, estuaryApiKey |-> FALSE]
          /\ disk = [f \in files |-> FileV1]
    /\ dirs = <<>>
    /\ db = EmptyMap
    /\ hashmap = EmptyMap
    /\ keyList = {}
    /\ mfs = EmptyMap
    /\ watcher = [watched |-> {}, listeners |-> {}]
    /\ main = [pc |-> "off"]
    /\ tasks = <<>>
    /\ faults = 0
    /\ hist = [events |-> 0]
    /\ last = NoLast

\* walkdir is called for a root.
WalkCall ==
    /\ \E root \in WalkRoots :
          last' = [op |-> "walk", root |-> root, res |-> WalkDir(root)]
    /\ UNCHANGED <<cfg, dirs, disk, db, hashmap, keyList, mfs, watcher, main, tasks,
                   faults, hist>>

WalkNext == WalkCall

SpecWalk == WalkInit /\ [][WalkNext]_vars

\* The files and directories below root that walkdir comes across: those
\* with no ignored directory between root and them.
Discovered(root) ==
    LET under == {f \in DOMAIN disk : StartsWith(f, root)}
        paths == under \cup UNION {Ancestors(root, f) : f \in under}
    IN  {p \in paths : \A d \in Ancestors(root, p) : ~ShouldIgnorePath(d)}

\* C16: walkdir returns, each once, exactly the files below the root that
\* are not ignored and have no ignored directory between the root and them;
\* the predicate is called once with every path come across; with hidden
\* files ignored a directory holding a and .h yields a alone.
C16_WalkReturnsKeptFiles ==
    last.op = "walk"
        => LET root == AsDir(Resolve(last.root))
               res  == last.res
               kept == {f \in DOMAIN disk :
                           /\ StartsWith(f, root)
                           /\ ~ShouldIgnorePath(f)
                           /\ \A d \in Ancestors(root, f) : ~ShouldIgnorePath(d)}
           IN  /\ res.ok <=> (\E f \in DOMAIN disk : StartsWith(f, root))
               /\ Range(res.value) = kept
               /\ Len(res.value) = Cardinality(kept)
               /\ Range(res.asked) = Discovered(root)
               /\ Len(res.asked) = Cardinality(Discovered(root))
               /\ res.ok = Walk(last.root).ok
               /\ Range(res.value) = Range(Walk(last.root).value)
               /\ (cfg.ignoreHidden /\ DOMAIN disk = {FileA, FileHidden} /\ root = DirAbs)
                     => res.value = <<FileA>>

\* The directory holding a and .h was walked with hidden files ignored.
C16_Witness ==
    /\ last.op = "walk"
    /\ cfg.ignoreHidden
    /\ DOMAIN disk = {FileA, FileHidden}
    /\ last.root = DirAbs
    /\ last.res.value = <<FileA>>
    /\ last.res.asked = <<FileHidden, FileA>>

\* C17: no file whose extension is one of the configured suffixes (given
\* without the dot) is among the files walkdir returns.
C17_IgnoredSuffixNotWalked ==
    last.op = "walk"
        => \A f \in Range(last.res.value) :
              \A suffix \in cfg.ignore : Extname(f) # <<46>> \o suffix

---------------------------------------------------------------------------
(* FileHash.getFileFakeHash alone, over sizes and times of up to 40 bits *)

\* The numbers 1 + h * 2^24 + k * 2^32 and 2 + h * 2^24 + k * 2^32 for h and
\* k in {0, 1}, as their 8 bytes, low byte first.
HashNums ==
    {<<low, 0, 0, h, k, 0, 0, 0>> : low \in {1, 2}, h \in {0, 1}, k \in {0, 1}}

HashInit ==
    /\ \E sa \in HashNums, ma \in HashNums, sb \in HashNums, mb \in HashNums :
          disk = [f \in {FileA, FileB} |->
                     IF f = FileA THEN [content |-> <<104, 105>>, size |-> sa, mtime |-> ma]
                     ELSE [content |-> <<104, 105>>, size |-> sb, mtime |-> mb]]
    /\ cfg = [hasDb |-> FALSE]
    /\ dirs = <<>>
    /\ db = EmptyMap
    /\ hashmap = EmptyMap
    /\ keyList = {}
    /\ mfs = EmptyMap
    /\ watcher = [watched |-> {}, listeners |-> {}]
    /\ main = [pc |-> "off"]
    /\ tasks = <<>>
    /\ faults = 0
    /\ hist = [prehash |-> EmptyMap]
    /\ last = NoLast

\* getFileFakeHash is called for a file; the buffer it digests is kept as
\* history.
HashCall ==
    /\ \E f \in DOMAIN disk :
          /\ f \notin DOMAIN hist.prehash
          /\ hist' = [hist EXCEPT !.prehash =
                         MapPut(@, f, PreHash(disk[f].size) \o PreHash(disk[f].mtime))]
          /\ last' = [op |-> "fakeHash", path |-> f, ret |-> GetFileFakeHash(disk[f])]
    /\ UNCHANGED <<cfg, dirs, disk, db, hashmap, keyList, mfs, watcher, main, tasks, faults>>

HashNext == HashCall

SpecHash == HashInit /\ [][HashNext]_vars

\* C18: the buffer digested for a file is the 8 bytes of its size followed
\* by the 8 bytes of its modification time, low byte first; files that
\* differ in size or in modification time have different buffers and
\* different quick digests.
C18_PreHashSeparatesStats ==
    \A f \in DOMAIN hist.prehash :
        /\ hist.prehash[f] = disk[f].size \o disk[f].mtime
        /\ \A g \in DOMAIN hist.prehash :
              Stat(disk[f]) # Stat(disk[g])
                 => /\ hist.prehash[f] # hist.prehash[g]
                    /\ GetFileFakeHash(disk[f]) # GetFileFakeHash(disk[g])

\* C19: when EstuaryClient.updatePin has returned after a pin listing that
\* was answered, its last request is a replacement of the listed pin that
\* succeeded, or else the creation of a pin on the new identifier.
C19_UpdatePinEndsWithPinRequest ==
    (/\ main.pc = "tickPublish"
     /\ Dir(main.i).Estuary
     /\ \E k \in 1..Len(main.calls) :
           /\ main.calls[k].op = "GET pinning/pins"
           /\ main.calls[k].res \in {"match", "nomatch"})
        => LET end == main.calls[Len(main.calls)]
           IN  \/ end.op = "pinning/pins/<id>" /\ end.res = "ok"
               \/ end.op = "pinning/pins" /\ end.a = main.fcid

\* C20: when the publish-file of a file of the reconciliation batch or of
\* the full upload has failed (it returned an error, or it threw), start()
\* goes on with the remaining files of the batch.
C20_FailedPublishKeepsBatchGoing ==
    [][(/\ main.pc \in {"reconAdd", "addDirAdd"}
        /\ \/ main.af.pc = "threw"
           \/ main.af.pc = "ret" /\ main.af.res = "err"
        /\ main' # main)
          => /\ main'.pc = (IF main.pc = "reconAdd" THEN "recon" ELSE "addDirFile")
             /\ main'.files = Tail(main.files)
      ]_vars

\* The key generation of the directory start() is at was answered with an
\* error; addDir of that directory returned an error.
KeyGenFailed ==
    \E k \in 1..Len(main.calls) :
        main.calls[k].op = "key/gen" /\ main.calls[k].res # "ok"
UploadFailed == main.pc = "failed" /\ main.i \in hist.uploaded

\* C21: once key generation or the full upload of a directory has failed,
\* start() has returned an error and stays there: neither that directory
\* nor a later one is watched, no name/publish was issued for it and no
\* tick of the main loop has begun.
C21_SetupFailureEndsStartup ==
    /\ []((KeyGenFailed \/ UploadFailed)
             => /\ main.pc = "failed"
                /\ \A j \in main.i..Len(dirs) : j \notin watcher.listeners
                /\ \A k \in 1..Len(main.calls) : main.calls[k].op # "name/publish"
                /\ hist.tick.state = "none")
    /\ [][main.pc = "failed"
             => (main' = main /\ watcher'.listeners = watcher.listeners)]_vars

\* start() has returned the error of a failed key generation, and in
\* another run that of a failed upload.
C21_Witness ==
    /\ main.pc = "failed"
    /\ KeyGenFailed \/ (UploadFailed /\ main.i \in hist.generatedOk)
    /\ hist.events = 0


\* The positions of start() inside the main loop.
InLoop ==
    main.pc \in {"sleep", "tickStat", "pinUpdate", "cleanFilestore", "pinAdd",
                 "estGet", "estReplace", "estPin", "tickPublish"}

\* C22: once the main loop has started it never stops: whatever a remote or
\* pinning-service call of a tick answers (an error, or a body that is not
\* the expected JSON), start() is still in the loop after the step.
C22_LoopNeverStops == [][InLoop => InLoop']_vars


\* C23: with a store configured, every path of the mirror
\* (hashStore.hashmap) has its two entries in the store, the content digest
\* at the path and the quick digest at ts_<path>.  Every handler writes the
\* mirror and the store in one step here, so no state lies between the
\* writes of one operation.
C23_MirrorPathsAreStored ==
    cfg.hasDb => \A p \in DOMAIN hashmap :
                     p \in DOMAIN db /\ TsKey(p) \in DOMAIN db


\* C24: IpfsClient.updatePin repeats pin/updated at most once: within one
\* updatePin of the main loop pin/updated is posted at most twice, however
\* the attempts end.
C24_PinUpdateRetriedOnce == InLoop => MainCount("pin/updated") <= 2


\* C25: handleBadBlockError returns false when its hash-only add fails, so
\* no repeated run of publish-file follows a failed hash-only add.
C25_FailedRecoveryIsNotRetried ==
    \A t \in TaskIds :
        \A k \in 1..Len(LogOf(t)) :
            (/\ LogOf(t)[k].op = "add"
             /\ LogOf(t)[k].b = TRUE
             /\ LogOf(t)[k].res # "ok"
             /\ k < Len(LogOf(t)))
                => ~(IsInvocation(LogOf(t)[k + 1]) /\ LogOf(t)[k + 1].depth > 0)


---------------------------------------------------------------------------
(* IpfsClient.removeBlock on its own: one block, the pins that hold it,    *)
(* and a node that refuses block/rm while a pin holds the block.           *)

\* The block "QmX" and two recursive pins "QmP", "QmQ" that can hold it;
\* the block can also be pinned itself.
BlockCid == <<81, 109, 88>>
PinP == <<81, 109, 80>>
PinQ == <<81, 109, 81>>
BlockPins == {BlockCid, PinP, PinQ}

\* More requests than one removeBlock makes: two for every pin and for
\* every failed request, and the last block/rm.
MaxCalls == 2 * Cardinality(BlockPins) + 2 * MaxFaults + 2

\* 'pinned'
Pinned == <<112, 105, 110, 110, 101, 100>>
\* 'pinned (recursive)': the block itself is pinned, no pin is named.
PinnedRecursive == Pinned \o <<32, 40, 114, 101, 99, 117, 114, 115, 105, 118, 101, 41>>
\* 'pinned via <pin>'
PinnedVia(pin) == Pinned \o <<32, 118, 105, 97, 32>> \o pin
\* Any other error message: 'error'.
BlockError == <<101, 114, 114, 111, 114>>

Response(ok, error) == [ok |-> ok, error |-> error]

\* The pin removed for every 'pinned' message: the block itself.
PinCidOwn(error, cid) == cid

\* removeBlock: the pin to remove for a 'pinned' message.
PinCid(error, cid) ==
    LET errorParts == Split(error, 32)
    IN  IF Len(errorParts) >= 3 THEN JsAt(errorParts, 2) ELSE cid

\* What the node answers to block/rm: while a pin holds the block, a
\* 'pinned' message about one of the pins; otherwise ok; or another error.
BlockRmResponses ==
    (IF DOMAIN mfs = {} THEN {Response(TRUE, Empty)}
     ELSE {Response(FALSE, IF p = BlockCid THEN PinnedRecursive ELSE PinnedVia(p)) :
              p \in DOMAIN mfs})
    \cup (IF faults < MaxFaults THEN {Response(FALSE, BlockError)} ELSE {})

\* What the node answers to pin/rm: ok for a pin it has, unless the request
\* fails.
PinRmResponses(pin) ==
    (IF pin \in DOMAIN mfs THEN {Response(TRUE, Empty)} ELSE {Response(FALSE, BlockError)})
    \cup (IF faults < MaxFaults THEN {Response(FALSE, BlockError)} ELSE {})

\* removeBlock(BlockCid) has posted block/rm; in mfs every pin that holds
\* the block maps to the block.
BlockInit ==
    /\ \E pins \in SUBSET BlockPins : mfs = [p \in pins |-> BlockCid]
    /\ main = [pc |-> "blockRm", cid |-> BlockCid, pinCid |-> Empty, calls |-> <<>>]
    /\ cfg = [hasDb |-> FALSE]
    /\ dirs = <<>>
    /\ disk = EmptyMap
    /\ db = EmptyMap
    /\ hashmap = EmptyMap
    /\ keyList = {}
    /\ watcher = [watched |-> {}, listeners |-> {}]
    /\ tasks = <<>>
    /\ faults = 0
    /\ hist = [events |-> 0]
    /\ last = NoLast

\* The response to block/rm: the loop goes on for a message that starts
\* with 'pinned' and posts pin/rm; otherwise removeBlock returns.
BlockRemoved ==
    /\ main.pc = "blockRm"
    /\ Len(main.calls) < MaxCalls
    /\ \E response \in BlockRmResponses :
          LET again == ~response.ok /\ StartsWith(response.error, Pinned)
          IN  /\ main' = [main EXCEPT
                             !.pc = IF again THEN "pinRm" ELSE "done",
                             !.pinCid = IF again THEN PinCid(response.error, main.cid) ELSE @,
                             !.calls = Append(@, Call("block/rm", main.cid, Empty, response))]
              /\ faults' = IF response.error = BlockError THEN faults + 1 ELSE faults
    /\ UNCHANGED <<cfg, dirs, disk, db, hashmap, keyList, mfs, watcher, tasks, hist, last>>

\* The response to pin/rm (an error is only logged): block/rm is posted
\* again.
PinRemoved ==
    /\ main.pc = "pinRm"
    /\ \E response \in PinRmResponses(main.pinCid) :
          /\ main' = [main EXCEPT !.pc = "blockRm",
                         !.calls = Append(@, Call("pin/rm", main.pinCid, Empty, response))]
          /\ mfs' = IF response.ok THEN MapDelAll(mfs, {main.pinCid}) ELSE mfs
          /\ faults' = IF ~response.ok /\ main.pinCid \in DOMAIN mfs
                       THEN faults + 1 ELSE faults
    /\ UNCHANGED <<cfg, dirs, disk, db, hashmap, keyList, watcher, tasks, hist, last>>

BlockNext == BlockRemoved \/ PinRemoved

\* The node answers every request in the end.
SpecBlock == BlockInit /\ [][BlockNext]_vars /\ WF_vars(BlockNext)

\* The block removal at position k of the log was refused because of a pin.
RefusedForPin(k) ==
    /\ main.calls[k].op = "block/rm"
    /\ ~main.calls[k].res.ok
    /\ main.calls[k].res.error \in {PinnedRecursive} \cup {PinnedVia(p) : p \in BlockPins}

\* C26: removeBlock posts block/rm again only after a 'pinned' failure and
\* exactly one pin/rm, of the pin the message names or of the block itself
\* when it names none; after a successful block/rm or any other error it
\* has returned and posts nothing more; and it returns in the end.
C26_RemoveBlockRetriesWhilePinned ==
    /\ [](\A k \in 1..Len(main.calls) :
             LET call == main.calls[k]
             IN  /\ call.op = "block/rm"
                    => /\ call.a = BlockCid
                       /\ k > 1 => (main.calls[k - 1].op = "pin/rm" /\ RefusedForPin(k - 2))
                       /\ ~RefusedForPin(k) => (k = Len(main.calls) /\ main.pc = "done")
                 /\ call.op = "pin/rm"
                    => /\ k > 1 /\ RefusedForPin(k - 1)
                       /\ \A p \in BlockPins \ {BlockCid} :
                             main.calls[k - 1].res.error = PinnedVia(p) => call.a = p
                       /\ main.calls[k - 1].res.error = PinnedRecursive => call.a = BlockCid)
    /\ <>(main.pc = "done")

C26_Witness ==
    /\ main.pc = "done"
    /\ main.calls[Len(main.calls)].res.ok
    /\ \E j, k \in 1..Len(main.calls) :
          /\ main.calls[j].op = "pin/rm" /\ main.calls[j].a = PinP
          /\ main.calls[k].op = "pin/rm" /\ main.calls[k].a = BlockCid
    /\ \E k \in 1..Len(main.calls) : main.calls[k].op = "pin/rm" /\ ~main.calls[k].res.ok


\* The identifier files/stat gives for directory i in the current state.
RemoteRoot(i) == TreeCid(mfs, BasePath \o ToStr(Dir(i).MFSPath))

\* C27: when the main loop reads the identifier of a directory and it is
\* the stored one, or none (the remote has none, or the read failed), the
\* step issues no pin update, no pinning-service call and no name/publish,
\* leaves the stored identifier alone and goes on to the next directory.
C27_UnchangedRootIssuesNothing ==
    [][(/\ main.pc = "tickStat"
        /\ main' # main
        /\ \/ RemoteRoot(main.i) \in {Dir(main.i).CID, Empty}
           \/ faults' > faults)
          => /\ main'.calls = main.calls
             /\ dirs' = dirs
             /\ hist'.tick = hist.tick
             /\ main'.pc \in {"tickStat", "sleep"}
             /\ main'.pc = "tickStat" => main'.i = main.i + 1]_vars

C27_Witness ==
    /\ main.pc = "tickStat"
    /\ main.i = 2
    /\ hist.tick.state = "none"
    /\ hist.events = 0
    /\ RemoteRoot(1) = Dir(1).CID
    /\ RemoteRoot(1) # Empty


\* C28: while start() is in its main loop (asleep before a tick, or at any
\* step of a tick) every configured directory has its watch attached: the
\* loop never reads a directory's identifier while a directory is still in
\* startup.
C28_LoopAfterAllWatching ==
    InLoop => \A i \in 1..Len(dirs) :
                  i \in watcher.listeners /\ Dir(i).Dir \in watcher.watched

C28_Witness ==
    /\ main.pc = "tickStat"
    /\ main.i = 1
    /\ Len(dirs) = 2
    /\ watcher.listeners = {1, 2}
    /\ hist.tick.state = "none"


\* Listener t and the reconciliation each have a publish-file of the same
\* file in flight.
Racing(t) ==
    /\ t \in 1..Len(tasks)
    /\ tasks[t].pc = "adding"
    /\ main.pc = "reconAdd"
    /\ Resolve(tasks[t].path) = Resolve(Head(main.files).pathOnDisk)

\* C29: a listener and the reconciliation can each have a publish-file of
\* the same file in flight, and nothing orders what they then write to the
\* fingerprint store: once both publish-files have returned, the listener's
\* write and the reconciliation's write can each be the next step.
C29_RacingWritesUnordered ==
    \A t \in 1..Len(tasks) :
        (Racing(t) /\ tasks[t].af.pc = "ret" /\ main.af.pc = "ret")
            => (ENABLED HandlerAdded(t)) /\ (ENABLED ReconAfter)

C29_Witness ==
    \E t \in 1..Len(tasks) :
        /\ Racing(t)
        /\ tasks[t].af.pc = "ret"
        /\ main.af.pc = "ret"
        /\ tasks[t].d # main.i


\* C30: a directory whose key resolved at startup has the resolved
\* identifier as its stored one, so the main loop never passes an unset
\* identifier as the old pin of a pin update or of a pinning-service update.
C30_OldPinIsSet ==
    InLoop => \A k \in 1..Len(main.calls) :
                  main.calls[k].op \in {"updatePin", "estuary.updatePin", "pin/updated"}
                      => main.calls[k].a # Undefined


\* C31: with a store, when the listener of an add or change event has
\* finished for a path, the store holds for that path the content digest
\* and the quick digest of the path's mirror entry.
C31_WatchPersistsMirrorEntry ==
    \A t \in 1..Len(tasks) :
        (/\ cfg.hasDb
         /\ tasks[t].kind \in {"add", "change"}
         /\ tasks[t].pc = "done")
            => /\ tasks[t].path \in DOMAIN hashmap
               /\ DbGet(db, tasks[t].path) = hashmap[tasks[t].path].hash
               /\ DbGet(db, TsKey(tasks[t].path)) = hashmap[tasks[t].path].fakeHash


\* The mutable-namespace path of file p of directory i: the last component
\* of the directory's local root, then p's path below the root.
RemoteName(i) == LET parts == Split(Dir(i).Dir, PathSeparator) IN parts[Len(parts) - 1]
NamespacePath(i, p) ==
    RemoteName(i) \o <<47>> \o StrSlice(Resolve(p), Len(Resolve(Dir(i).Dir)))

\* C32: every publish-file invoked for a file of a directory (by the
\* reconciliation, by the full upload, by a listener) is given the file's
\* mutable-namespace path, and a listener's removal goes to that path.
C32_OneNamespacePathPerFile ==
    \A t \in TaskIds :
        \A k \in 1..Len(LogOf(t)) :
            LET call == LogOf(t)[k]
            IN  /\ IsInvocation(call)
                   => \E i \in 1..Len(dirs) :
                         /\ StartsWith(Resolve(call.a), Resolve(Dir(i).Dir))
                         /\ call.b = NamespacePath(i, call.a)
                /\ (t > 0 /\ call.op = "rm")
                   => call.a = BasePath \o NamespacePath(tasks[t].d, tasks[t].path)


\* C33: when the publish-file that the reconciliation invoked for a changed
\* file has returned an error and the file was not written since, the store
\* does not hold the file's current quick digest: the next reconciliation
\* finds the file changed again.
C33_FailedPublishStaysStale ==
    (/\ cfg.hasDb
     /\ main.pc = "reconAdd"
     /\ main.af.pc = "ret"
     /\ main.af.res = "err"
     /\ hist.events = 0)
        => LET f == Head(main.files).pathOnDisk
           IN  DbGet(db, TsKey(f)) # GetFileFakeHash(disk[Resolve(f)])


\* C34: when Watchdog.addFile, invoked by start() with no file event in
\* the run, has returned ok(identifier), the identifier is linked at the
\* target path of the mutable namespace.
C34_OkMeansLinked ==
    (/\ main.af.pc = "ret"
     /\ main.af.res = "ok"
     /\ hist.events = 0)
        => MapGet(mfs, BasePath \o main.af.mfsPath, Undefined) = main.af.hash0


\* C35: every files/cp that start() makes for a file follows, in the same
\* run, a successful files/mkdir of the parent of the file's target path.
C35_LinkFollowsParentCreation ==
    \A k \in 1..Len(main.calls) :
        main.calls[k].op = "cp"
            => \E j \in 1..(k - 1) :
                  /\ main.calls[j].op = "mkdir"
                  /\ main.calls[j].res = "ok"
                  /\ main.calls[j].a = ParentDir(main.calls[k].b)



\* C36: a file the directory walk leaves out, because the file itself or a
\* directory between the root and it is ignored (a file inside a hidden
\* directory, say), is never linked into the namespace by the listener of an
\* add or a change event.
C36_WatchHonoursWalkExclusion ==
    \A t \in 1..Len(tasks) :
        (/\ tasks[t].kind \in {"add", "change"}
         /\ main.pc # "failed"
         /\ \E k \in 1..Len(tasks[t].calls) :
               tasks[t].calls[k].op = "cp" /\ tasks[t].calls[k].res = "ok")
            => LET root == AsDir(Resolve(Dir(tasks[t].d).Dir))
                   f    == Resolve(tasks[t].path)
               IN  /\ ~ShouldIgnorePath(f)
                   /\ \A d \in Ancestors(root, f) : ~ShouldIgnorePath(d)



\* The path in the namespace where the listeners of directory i keep the
\* file at event path p.
ListenerTarget(i, p) ==
    BasePath \o ToStr(WatchDirName(Dir(i))) \o <<47>> \o StrSlice(p, Len(Dir(i).Dir))

\* C37: with one watched directory, once the listeners of the add, change
\* and unlink events of one path have all run to completion, in whatever
\* order their steps were taken, and no remote call has failed, the file's
\* path is linked in the namespace exactly when the file is on disk.
C37_NamespaceFollowsDisk ==
    (/\ Len(dirs) = 1
     /\ faults = 0
     /\ InLoop
     /\ Len(tasks) = MaxRaceEvents
     /\ \A t \in 1..Len(tasks) :
           /\ tasks[t].path = tasks[1].path
           /\ tasks[t].kind \in {"add", "change", "unlink"}
           /\ tasks[t].pc = "done")
        => (ListenerTarget(1, tasks[1].path) \in DOMAIN mfs
                <=> Resolve(tasks[1].path) \in DOMAIN disk)

============================================================================
